---- MODULE Spec2Model ----
(***************************************************************************)
(* Model of the Plugwise protocol engine (src/src/protocol): the frame     *)
(* layer, the message codec and the command engine with its retry loop.    *)
(*                                                                         *)
(* Bytes are integers 0..255 and byte strings are sequences of them.       *)
(* Fixed-width unsigned values wider than 16 bits (u32, u64) are kept as   *)
(* their big-endian sequence of nibbles, which is one-to-one with the      *)
(* value for a fixed width.                                                *)
(*                                                                         *)
(* Helpers that recurse are written as functions f[x \in S], and a value   *)
(* that is used several times is bound once, as the element of a           *)
(* one-element set (see The): each is then computed once.                  *)
(***************************************************************************)
EXTENDS Integers, Sequences, FiniteSets, TLC

(***************************************************************************)
(* Bounds of the model.                                                    *)
(***************************************************************************)
\* longest payload handed to the frame layer in FrameSpec
MaxPayloadLen == 3
\* largest retry count set_retries is given
MaxRetries == 2
\* most messages a single await discards before the transport must either
\* deliver the awaited message, fail or time out
MaxDiscards == 2

(***************************************************************************)
(* Program constants (src/src/protocol/mod.rs:12-16).                      *)
(***************************************************************************)
HEADER == <<5, 5, 3, 3>>
FOOTER == <<13, 10>>
EOM == 10
CRC_SIZE == 4
DEFAULT_RETRIES == 3

(***************************************************************************)
(* Results: Ok(v) and Err(e).  Errors are PlError values; an io::Error is  *)
(* "Io:" followed by its ErrorKind.                                        *)
(***************************************************************************)
Ok(v) == [ok |-> TRUE, val |-> v, err |-> "none"]
Err(e) == [ok |-> FALSE, val |-> <<>>, err |-> e]

ErrProtocol == "Protocol"
ErrUnexpectedResponse == "UnexpectedResponse"
ErrIoTimedOut == "Io:TimedOut"
ErrIoOther == "Io:Other"
ErrIoNotFound == "Io:NotFound"
ErrIoInvalidInput == "Io:InvalidInput"

(***************************************************************************)
(* Hexadecimal characters.                                                 *)
(***************************************************************************)
\* char::to_digit(16): the digit value, or -1 for None
to_digit[b \in Int] ==
    IF b >= 48 /\ b <= 57 THEN b - 48
    ELSE IF b >= 65 /\ b <= 70 THEN b - 55
    ELSE IF b >= 97 /\ b <= 102 THEN b - 87
    ELSE -1

\* one nibble rendered by the {:X} formatter
upper_hex[n \in Nat] == IF n < 10 THEN 48 + n ELSE 55 + n

\* the `width` big-endian nibbles of the number v
nibbles_of[v \in Nat, width \in Nat] ==
    IF width = 0 THEN <<>>
    ELSE Append(nibbles_of[v \div 16, width - 1], v % 16)

\* format!("{:0wX}", v) of a value given by its nibbles
format_hex[nibs \in Seq(Nat)] == [i \in 1..Len(nibs) |-> upper_hex[nibs[i]]]

\* the number a nibble sequence stands for (used for values below 2^31 only)
nib_value[nibs \in Seq(Nat)] ==
    IF nibs = <<>> THEN 0
    ELSE 16 * nib_value[SubSeq(nibs, 1, Len(nibs) - 1)] + nibs[Len(nibs)]

(***************************************************************************)
(* CRC-16/XMODEM (crc16 crate, State::<XMODEM>): polynomial 0x1021,        *)
(* initial value 0, no reflection, no final xor.                           *)
(***************************************************************************)
\* a ^ b
bit_xor[a \in Nat, b \in Nat] ==
    IF a = 0 THEN b
    ELSE IF b = 0 THEN a
    ELSE 2 * bit_xor[a \div 2, b \div 2] + ((a + b) % 2)

\* one shift step of the CRC register
crc_step[reg \in Nat] ==
    IF reg >= 32768 THEN bit_xor[(reg * 2) % 65536, 4129] ELSE reg * 2

\* the eight shift steps made for one byte
crc_shift(reg) ==
    crc_step[crc_step[crc_step[crc_step[crc_step[crc_step[crc_step[crc_step[reg]]]]]]]]

\* State::update with one byte
crc_update(reg, byte) == crc_shift(bit_xor[reg, byte * 256])

\* State::update over bytes[i..] in order
crc_fold[reg \in Nat, bytes \in Seq(Nat), i \in Nat] ==
    IF i > Len(bytes) THEN reg
    ELSE crc_fold[crc_update(reg, bytes[i]), bytes, i + 1]

\* State::<XMODEM>::calculate(bytes)
crc16_xmodem(bytes) == crc_fold[0, bytes, 1]

(***************************************************************************)
(* Frame layer: send.                                                      *)
(***************************************************************************)
\* the bytes send_message_raw hands to the transport, in write order
send_message_raw(payload) ==
    LET crc == format_hex[nibbles_of[crc16_xmodem(payload), 4]]
    IN HEADER \o payload \o crc \o FOOTER

(***************************************************************************)
(* Frame layer: receive.                                                   *)
(***************************************************************************)
\* positions (0-based, as in Rust) where the window `pat` occurs in buf
window_positions(buf, pat) ==
    {p \in 0..(Len(buf) - Len(pat)) : SubSeq(buf, p + 1, p + Len(pat)) = pat}

Min(S) == CHOOSE x \in S : \A y \in S : x <= y
Max(S) == CHOOSE x \in S : \A y \in S : x >= y

\* index (1-based) of the first EOM byte of the stream, 0 when there is none
first_eom(stream) ==
    LET hits == {i \in 1..Len(stream) : stream[i] = EOM}
    IN IF hits = {} THEN 0 ELSE Min(hits)

\* BufRead::read_until(EOM) on the bytes the transport still holds.  When no
\* EOM byte arrives before the read deadline the read fails with TimedOut and
\* the bytes read so far are dropped with the local buffer.
read_until(stream) ==
    LET e == first_eom(stream)
    IN IF e = 0
       THEN [res |-> Err(ErrIoTimedOut), rest |-> <<>>]
       ELSE [res |-> Ok(SubSeq(stream, 1, e)),
             rest |-> SubSeq(stream, e + 1, Len(stream))]

\* plugwise_line that leaves the loop with a Protocol error on a line without
\* the header
plugwise_line_headerless_error(buf) ==
    LET hs == window_positions(buf, HEADER)
        fs == window_positions(buf, FOOTER)
    IN IF hs = {} \/ fs = {}
       THEN [kind |-> "done", res |-> Err(ErrProtocol), hpos |-> -1, fpos |-> -1]
       ELSE [kind |-> "done", res |-> Ok(buf), hpos |-> Min(hs), fpos |-> Max(fs)]

\* plugwise_line that takes the LF that ends the line for the footer when
\* no CR precedes it
plugwise_line_lf_footer(buf) ==
    LET hs == window_positions(buf, HEADER)
        fs == window_positions(buf, FOOTER) \cup window_positions(buf, <<EOM>>)
    IN IF hs = {} THEN [kind |-> "noise", res |-> Err("none"), hpos |-> -1, fpos |-> -1]
       ELSE IF fs = {}
       THEN [kind |-> "done", res |-> Err(ErrProtocol), hpos |-> Min(hs), fpos |-> -1]
       ELSE [kind |-> "done", res |-> Ok(buf), hpos |-> Min(hs), fpos |-> Max(fs)]

\* one pass of the loop of receive_plugwise_message_raw on a line that was
\* read: "noise" (no header: read on), an error, or (buf, header_pos, footer_pos)
plugwise_line(buf) ==
    LET hs == window_positions(buf, HEADER)
        fs == window_positions(buf, FOOTER)
    IN IF hs = {} THEN [kind |-> "noise", res |-> Err("none"), hpos |-> -1, fpos |-> -1]
       ELSE IF fs = {}
       THEN [kind |-> "done", res |-> Err(ErrProtocol), hpos |-> Min(hs), fpos |-> -1]
       ELSE [kind |-> "done", res |-> Ok(buf), hpos |-> Min(hs), fpos |-> Max(fs)]

\* buf.iter().take(t).skip(s)
take_skip(buf, t, s) ==
    IF t <= s THEN <<>> ELSE SubSeq(buf, s + 1, IF t > Len(buf) THEN Len(buf) ELSE t)

parse_crc_fold[acc \in Nat, chars \in Seq(Nat), i \in Nat] ==
    IF i > Len(chars) THEN acc
    ELSE parse_crc_fold[((acc * 16) % 65536)
                          + (IF to_digit[chars[i]] < 0 THEN 0 ELSE to_digit[chars[i]]),
                        chars, i + 1]

\* parse_crc with the first character left out of the fold (take(3) after a
\* skip of one too many)
parse_crc_skip_first(chars) == parse_crc_fold[0, chars, 2]

\* parse_crc where a character that is no hexadecimal digit spoils the field:
\* the number it gives is outside the 16 bits a CRC can take
parse_crc_hex_only(chars) ==
    IF \E i \in 1..Len(chars) : to_digit[chars[i]] < 0
    THEN 65536
    ELSE parse_crc_fold[0, chars, 1]

\* the fold over the CRC characters: acc << 4 | digit as u16, where a character
\* that is no hexadecimal digit counts as 0 (unwrap_or_default)
parse_crc(chars) == parse_crc_fold[0, chars, 1]

\* the payload slice of a line: take(footer_pos - CRC_SIZE).skip(header_pos + 4)
payload_slice(buf, hpos, fpos) == take_skip(buf, fpos - CRC_SIZE, hpos + Len(HEADER))

\* the CRC field of a line: skip(footer_pos - CRC_SIZE).take(CRC_SIZE)
crc_slice(buf, fpos) ==
    SubSeq(buf, fpos - CRC_SIZE + 1,
           IF fpos > Len(buf) THEN Len(buf) ELSE fpos)

\* check_crc without the comparison: the payload slice is returned as it is
check_crc_unchecked(buf, hpos, fpos) == Ok(payload_slice(buf, hpos, fpos))

\* the CRC check of receive_message_raw on what receive_plugwise_message_raw
\* returned
check_crc(buf, hpos, fpos) ==
    IF parse_crc(crc_slice(buf, fpos)) # crc16_xmodem(payload_slice(buf, hpos, fpos))
    THEN Err(ErrProtocol)
    ELSE Ok(payload_slice(buf, hpos, fpos))

\* receive_message_raw on one line that holds the header
receive_line(buf) ==
    LET l == plugwise_line(buf)
    IN IF ~l.res.ok THEN l.res ELSE check_crc(buf, l.hpos, l.fpos)

RECURSIVE receive_message_raw(_)
\* receive_message_raw on the bytes the transport holds: lines without the
\* header are skipped; [res, rest, buf, hpos, fpos] with the bytes left unread
receive_message_raw(stream) ==
    LET r == read_until(stream)
    IN IF ~r.res.ok
       THEN [res |-> r.res, rest |-> r.rest, buf |-> <<>>, hpos |-> -1, fpos |-> -1]
       ELSE LET l == plugwise_line(r.res.val)
            IN IF l.kind = "noise" THEN receive_message_raw(r.rest)
               ELSE [res |-> receive_line(r.res.val), rest |-> r.rest,
                     buf |-> r.res.val, hpos |-> l.hpos, fpos |-> l.fpos]

(***************************************************************************)
(* Message codec: RawDataConsumer (src/src/protocol/messages/raw.rs).      *)
(* A consumer is the byte string that is left to decode.                   *)
(***************************************************************************)
\* str::from_str_radix(chars, 16) for an unsigned type of Len(chars) nibbles:
\* an optional leading '+' and then one hexadecimal digit or more; the value is
\* returned as its nibbles, <<-1>> stands for Err
from_str_radix[chars \in Seq(Nat)] ==
    LET digits == IF chars # <<>> /\ chars[1] = 43
                  THEN SubSeq(chars, 2, Len(chars)) ELSE chars
    IN IF digits = <<>> \/ \E i \in 1..Len(digits) : to_digit[digits[i]] < 0
       THEN <<-1>>
       ELSE [i \in 1..Len(chars) |->
                IF i <= Len(chars) - Len(digits) THEN 0
                ELSE to_digit[digits[i - (Len(chars) - Len(digits))]]]

\* the element of a one-element set.  The({F(x) : x \in {e}}) is F applied to
\* the value of e, with e computed once
The(S) == CHOOSE x \in S : TRUE

\* RawDataConsumer::decode::<T>() with size_of::<T>() * 2 = width
decode(buf, width) ==
    IF Len(buf) < width THEN Err(ErrIoOther)
    ELSE The({IF v = <<-1>> THEN Err(ErrIoOther)
              ELSE Ok([value |-> v, rest |-> SubSeq(buf, width + 1, Len(buf))])
              : v \in {from_str_radix[SubSeq(buf, 1, width)]}})

\* number of bytes of the well-formed UTF-8 sequence buf starts with at i,
\* 0 when there is none
utf8_len(buf, i) ==
    LET b == buf[i]
        cont(k) == i + k <= Len(buf) /\ buf[i + k] >= 128 /\ buf[i + k] <= 191
        second(lo, hi) == i + 1 <= Len(buf) /\ buf[i + 1] >= lo /\ buf[i + 1] <= hi
    IN IF b < 128 THEN 1
       ELSE IF b >= 194 /\ b <= 223 THEN (IF cont(1) THEN 2 ELSE 0)
       ELSE IF b = 224 THEN (IF second(160, 191) /\ cont(2) THEN 3 ELSE 0)
       ELSE IF b = 237 THEN (IF second(128, 159) /\ cont(2) THEN 3 ELSE 0)
       ELSE IF b >= 225 /\ b <= 239 THEN (IF cont(1) /\ cont(2) THEN 3 ELSE 0)
       ELSE IF b = 240 THEN (IF second(144, 191) /\ cont(2) /\ cont(3) THEN 4 ELSE 0)
       ELSE IF b = 244 THEN (IF second(128, 143) /\ cont(2) /\ cont(3) THEN 4 ELSE 0)
       ELSE IF b >= 241 /\ b <= 243 THEN (IF cont(1) /\ cont(2) /\ cont(3) THEN 4 ELSE 0)
       ELSE 0

\* str::from_utf8(buf).is_ok(), checked from index i on
from_utf8[buf \in Seq(Nat), i \in Nat] ==
    IF i > Len(buf) THEN TRUE
    ELSE The({n # 0 /\ from_utf8[buf, i + n] : n \in {utf8_len(buf, i)}})

\* RawDataConsumer::decode_string(size)
decode_string(buf, size) ==
    IF Len(buf) < size THEN Err(ErrIoOther)
    ELSE IF ~from_utf8[SubSeq(buf, 1, size), 1] THEN Err(ErrIoOther)
    ELSE Ok([value |-> SubSeq(buf, 1, size), rest |-> SubSeq(buf, size + 1, Len(buf))])

\* a chain of try!(decode::<T>()) calls on the same consumer, one per width:
\* the values in order and what is left, or the first error
decode_chain[buf \in Seq(Nat), widths \in Seq(Nat), acc \in Seq(Seq(Nat))] ==
    IF widths = <<>> THEN Ok([value |-> acc, rest |-> buf])
    ELSE The({IF ~d.ok THEN d
              ELSE decode_chain[d.val.rest, Tail(widths), Append(acc, d.val.value)]
              : d \in {decode(buf, Head(widths))}})

\* DateTime::new_raw(year, months, minutes): the three fields in this order
DateTime_new_raw(year, months, minutes) == <<year, months, minutes>>

\* RawDataConsumer::decode_datetime(): a u32 is decoded to advance, the same
\* characters are then decoded again as u8, u8, u16 for DateTime::new_raw
decode_datetime(buf) ==
    The({IF ~whole.ok THEN whole
         ELSE The({IF ~parts.ok THEN parts
                   ELSE Ok([value |-> DateTime_new_raw(nib_value[parts.val.value[1]],
                                                       nib_value[parts.val.value[2]],
                                                       nib_value[parts.val.value[3]]),
                            rest |-> whole.val.rest])
                   : parts \in {decode_chain[buf, <<2, 2, 4>>, <<>>]}})
         : whole \in {decode(buf, 8)}})

\* RawDataConsumer::check_fully_consumed()
check_fully_consumed(buf) == IF Len(buf) = 0 THEN Ok(<<>>) ELSE Err(ErrIoOther)

\* one positional field of a response body, by its kind
decode_field(buf, kind) ==
    CASE kind = "u8" -> decode(buf, 2)
      [] kind = "u16" -> decode(buf, 4)
      [] kind = "u32" -> decode(buf, 8)
      [] kind = "f32" -> decode(buf, 8)
      [] kind = "u64" -> decode(buf, 16)
      [] kind = "str12" -> decode_string(buf, 12)
      [] kind = "datetime" -> decode_datetime(buf)

\* the chain of try!(decoder.decode...) calls of a response constructor followed
\* by try!(decoder.check_fully_consumed()): the field values in order, or the
\* first error
decode_fields[buf \in Seq(Nat), kinds \in Seq(STRING), acc \in Seq(Seq(Nat))] ==
    IF kinds = <<>>
    THEN (IF Len(buf) = 0 THEN Ok(acc) ELSE check_fully_consumed(buf))
    ELSE The({IF ~f.ok THEN f
              ELSE decode_fields[f.val.rest, Tail(kinds), Append(acc, f.val.value)]
              : f \in {decode_field(buf, Head(kinds))}})

(***************************************************************************)
(* Message codec: messages (src/src/protocol/messages/mod.rs).             *)
(***************************************************************************)
ErrPanic == "panic"

\* the 16-bit halves of a u32 given by its 8 nibbles
u32_hi(nibs) == nib_value[SubSeq(nibs, 1, 4)]
u32_lo(nibs) == nib_value[SubSeq(nibs, 5, 8)]

\* addr2pos(addr) = (addr - ADDR_OFFS) / BYTES_PER_POS on u32, with
\* ADDR_OFFS = 278528 = 4 * 65536 + 16384 and BYTES_PER_POS = 32.  Below
\* ADDR_OFFS the subtraction overflows: a panic when the build checks
\* arithmetic overflow, the wrapped difference when it does not.
addr2pos(addr, checks) ==
    LET hi == u32_hi(addr)
        lo == u32_lo(addr)
        borrow == IF lo < 16384 THEN 1 ELSE 0
        dlo == lo + 65536 * borrow - 16384
        dhi == (hi + 65536 - 4 - borrow) % 65536
        underflow == hi < 4 + borrow
    IN IF underflow /\ checks THEN Err(ErrPanic)
       ELSE Ok(dhi * 2048 + (dlo \div 32))

\* pos2addr that drops the carry of the addition into the upper half
pos2addr_no_carry(pos, checks) ==
    LET lo32 == u32_lo(pos) * 32
        hi32 == u32_hi(pos) * 32 + (lo32 \div 65536)
        slo == (lo32 % 65536) + 16384
    IN Ok(nibbles_of[((hi32 % 65536) + 4) % 65536, 4] \o nibbles_of[slo % 65536, 4])

\* pos2addr(pos) = pos * BYTES_PER_POS + ADDR_OFFS on u32, as 8 nibbles; the
\* multiplication or the addition may overflow, as in addr2pos
pos2addr(pos, checks) ==
    LET lo32 == u32_lo(pos) * 32
        hi32 == u32_hi(pos) * 32 + (lo32 \div 65536)
        slo == (lo32 % 65536) + 16384
        shi == (hi32 % 65536) + 4 + (slo \div 65536)
        overflow == hi32 >= 65536 \/ shi >= 65536
    IN IF overflow /\ checks THEN Err(ErrPanic)
       ELSE Ok(nibbles_of[shi % 65536, 4] \o nibbles_of[slo % 65536, 4])

\* the message identifiers (lines 421-435)
ACK == 0
REQ_INITIALIZE == 10
RES_INITIALIZE == 17
REQ_INFO == 35
RES_INFO == 36
REQ_SWITCH == 23
REQ_CALIBRATION == 38
RES_CALIBRATION == 39
REQ_POWER_BUFFER == 72
RES_POWER_BUFFER == 73
REQ_POWER_USE == 18
RES_POWER_USE == 19
REQ_CLOCK_INFO == 62
RES_CLOCK_INFO == 63
REQ_CLOCK_SET == 22

\* enum MessageId with its discriminants
MessageIdValue ==
    [Ack |-> ACK, ReqInitialize |-> REQ_INITIALIZE, ResInitialize |-> RES_INITIALIZE,
     ReqInfo |-> REQ_INFO, ResInfo |-> RES_INFO, ReqSwitch |-> REQ_SWITCH,
     ReqCalibration |-> REQ_CALIBRATION, ResCalibration |-> RES_CALIBRATION,
     ReqPowerBuffer |-> REQ_POWER_BUFFER, ResPowerBuffer |-> RES_POWER_BUFFER,
     ReqPowerUse |-> REQ_POWER_USE, ResPowerUse |-> RES_POWER_USE,
     ReqClockInfo |-> REQ_CLOCK_INFO, ResClockInfo |-> RES_CLOCK_INFO,
     ReqClockSet |-> REQ_CLOCK_SET]

MessageId == DOMAIN MessageIdValue
RequestIds == {"ReqInitialize", "ReqInfo", "ReqSwitch", "ReqCalibration",
               "ReqPowerBuffer", "ReqPowerUse", "ReqClockInfo", "ReqClockSet"}
ResponseIds == MessageId \ RequestIds

\* MessageId::new(id): every value that is no identifier falls to the last arm
MessageId_new(id) ==
    IF \E m \in MessageId : MessageIdValue[m] = id
    THEN CHOOSE m \in MessageId : MessageIdValue[m] = id
    ELSE "Ack"

\* MessageId::as_bytes()
MessageId_as_bytes(m) == format_hex[nibbles_of[MessageIdValue[m], 4]]

\* ReqHeader::as_bytes(): the mac as 16 hexadecimal characters
ReqHeader_as_bytes(mac) == format_hex[mac]

\* Ack::new without the check that the mac ends the payload
Ack_new_unchecked(buf) ==
    The({IF ~status.ok THEN status
         ELSE IF Len(status.val.rest) = 0
         THEN Ok([status |-> status.val.value, mac |-> <<>>])
         ELSE The({IF ~mac.ok THEN mac
                   ELSE Ok([status |-> status.val.value, mac |-> <<mac.val.value>>])
                   : mac \in {decode(status.val.rest, 16)}})
         : status \in {decode(buf, 4)}})

\* Ack::new(decoder): the mac is decoded when bytes remain after the status;
\* mac is <<>> for None and <<mac>> for Some(mac)
Ack_new(buf) ==
    The({IF ~status.ok THEN status
         ELSE IF Len(status.val.rest) = 0
         THEN Ok([status |-> status.val.value, mac |-> <<>>])
         ELSE The({IF ~mac.ok THEN mac
                   ELSE IF Len(mac.val.rest) # 0 THEN check_fully_consumed(mac.val.rest)
                   ELSE Ok([status |-> status.val.value, mac |-> <<mac.val.value>>])
                   : mac \in {decode(status.val.rest, 16)}})
         : status \in {decode(buf, 4)}})

\* the body layout each response constructor decodes
BodyKinds ==
    [ResInitialize |-> <<"u8", "u8", "u64", "u16", "u8">>,
     ResInfo |-> <<"datetime", "u32", "u8", "u8", "str12", "u32", "u8">>,
     ResCalibration |-> <<"f32", "f32", "f32", "f32">>,
     ResPowerBuffer |-> <<"datetime", "u32", "datetime", "u32", "datetime", "u32",
                          "datetime", "u32", "u32">>,
     ResPowerUse |-> <<"u16", "u16", "u32", "u16", "u16", "u16">>,
     ResClockInfo |-> <<"u8", "u8", "u8", "u8", "u8", "u16">>]

\* ResInitialize::new
ResInitialize_new(buf) ==
    The({IF ~f.ok THEN f
         ELSE Ok([unknown1 |-> f.val[1], is_online |-> nib_value[f.val[2]] # 0,
                  network_id |-> f.val[3], short_id |-> f.val[4], unknown2 |-> f.val[5]])
         : f \in {decode_fields[buf, BodyKinds.ResInitialize, <<>>]}})

\* the mains frequency ResInfo::new derives from the byte it decodes
hz_of(raw) == IF raw = 133 THEN 50 ELSE IF raw = 197 THEN 60 ELSE 0

\* ResInfo::new
ResInfo_new(buf, checks) ==
    The({IF ~f.ok THEN f
         ELSE The({IF ~pos.ok THEN pos
                   ELSE Ok([datetime |-> f.val[1], last_logaddr |-> pos.val,
                            relay_state |-> nib_value[f.val[3]] # 0,
                            hz |-> hz_of(nib_value[f.val[4]]),
                            hw_ver |-> f.val[5], fw_ver |-> f.val[6],
                            unknown |-> f.val[7]])
                   : pos \in {addr2pos(f.val[2], checks)}})
         : f \in {decode_fields[buf, BodyKinds.ResInfo, <<>>]}})

\* ResCalibration::new: each f32 is kept as the bits of the u32 it is made of
ResCalibration_new(buf) ==
    The({IF ~f.ok THEN f
         ELSE Ok([gain_a |-> f.val[1], gain_b |-> f.val[2],
                  off_total |-> f.val[3], off_noise |-> f.val[4]])
         : f \in {decode_fields[buf, BodyKinds.ResCalibration, <<>>]}})

\* Pulses::new
Pulses_new(pulses, timespan) == [pulses |-> pulses, timespan |-> timespan]

\* ResPowerBuffer::new
ResPowerBuffer_new(buf, checks) ==
    The({IF ~f.ok THEN f
         ELSE The({IF ~pos.ok THEN pos
                   ELSE Ok([datetime1 |-> f.val[1], pulses1 |-> Pulses_new(f.val[2], 3600),
                            datetime2 |-> f.val[3], pulses2 |-> Pulses_new(f.val[4], 3600),
                            datetime3 |-> f.val[5], pulses3 |-> Pulses_new(f.val[6], 3600),
                            datetime4 |-> f.val[7], pulses4 |-> Pulses_new(f.val[8], 3600),
                            logaddr |-> pos.val])
                   : pos \in {addr2pos(f.val[9], checks)}})
         : f \in {decode_fields[buf, BodyKinds.ResPowerBuffer, <<>>]}})

\* ResPowerUse::new: the two u16 counts are widened to u32
ResPowerUse_new(buf) ==
    The({IF ~f.ok THEN f
         ELSE Ok([pulse_1s |-> Pulses_new(<<0, 0, 0, 0>> \o f.val[1], 1),
                  pulse_8s |-> Pulses_new(<<0, 0, 0, 0>> \o f.val[2], 8),
                  pulse_hour |-> Pulses_new(f.val[3], 3600),
                  unknown1 |-> f.val[4], unknown2 |-> f.val[5], unknown3 |-> f.val[6]])
         : f \in {decode_fields[buf, BodyKinds.ResPowerUse, <<>>]}})

\* ResClockInfo::new
ResClockInfo_new(buf) ==
    The({IF ~f.ok THEN f
         ELSE Ok([hour |-> nib_value[f.val[1]], minute |-> nib_value[f.val[2]],
                  second |-> nib_value[f.val[3]], day_of_week |-> nib_value[f.val[4]],
                  unknown1 |-> f.val[5], unknown2 |-> f.val[6]])
         : f \in {decode_fields[buf, BodyKinds.ResClockInfo, <<>>]}})

\* the match of Message::from_payload on the identifier: the body constructor
\* of each response, Err(Protocol) for every other identifier
from_payload_body(msg_id, decoder, checks) ==
    CASE msg_id = "ResInitialize" -> ResInitialize_new(decoder)
      [] msg_id = "ResInfo" -> ResInfo_new(decoder, checks)
      [] msg_id = "ResCalibration" -> ResCalibration_new(decoder)
      [] msg_id = "ResPowerBuffer" -> ResPowerBuffer_new(decoder, checks)
      [] msg_id = "ResPowerUse" -> ResPowerUse_new(decoder)
      [] msg_id = "ResClockInfo" -> ResClockInfo_new(decoder)
      [] msg_id = "Ack" -> Ack_new(decoder)
      [] OTHER -> Err(ErrProtocol)

\* the head of Message::from_payload: the identifier and the sequence counter,
\* and the mac unless the identifier is Ack; [header, decoder] or the error
from_payload_header(payload) ==
    The({IF ~h.ok THEN h
         ELSE The({IF msg_id = "Ack"
                   THEN Ok([header |-> [msgid |-> msg_id, count |-> h.val.value[2],
                                        mac |-> nibbles_of[0, 16]],
                            decoder |-> h.val.rest])
                   ELSE The({IF ~mac.ok THEN mac
                             ELSE Ok([header |-> [msgid |-> msg_id,
                                                  count |-> h.val.value[2],
                                                  mac |-> mac.val.value],
                                      decoder |-> mac.val.rest])
                             : mac \in {decode(h.val.rest, 16)}})
                   : msg_id \in {MessageId_new(nib_value[h.val.value[1]])}})
         : h \in {decode_chain[payload, <<4, 4>>, <<>>]}})

\* Message::from_payload(payload): Ok([id, header, body]) or the error
from_payload(payload, checks) ==
    The({IF ~h.ok THEN h
         ELSE The({IF ~body.ok THEN body
                   ELSE Ok([id |-> h.val.header.msgid, header |-> h.val.header,
                            body |-> body.val])
                   : body \in {from_payload_body(h.val.header.msgid, h.val.decoder,
                                                 checks)}})
         : h \in {from_payload_header(payload)}})

\* Message::to_message_id()
to_message_id(msg) == msg.id

(***************************************************************************)
(* Requests.  A request message is [id, mac, arg]: arg is the `on` flag of *)
(* ReqSwitch, the log index (8 nibbles) of ReqPowerBuffer, the ReqClockSet *)
(* record, and <<>> for the requests without a body.                       *)
(***************************************************************************)
\* ReqSwitch::as_bytes()
ReqSwitch_as_bytes(on) == format_hex[nibbles_of[IF on THEN 1 ELSE 0, 2]]

\* ReqPowerBuffer::as_bytes()
ReqPowerBuffer_as_bytes(logaddr, checks) ==
    LET addr == pos2addr(logaddr, checks)
    IN IF ~addr.ok THEN addr ELSE Ok(format_hex[addr.val])

\* ReqClockSet::as_bytes(): logaddr is <<>> for None, <<index>> for Some(index)
ReqClockSet_as_bytes(req, checks) ==
    LET addr == IF req.logaddr = <<>> THEN Ok(nibbles_of[65535, 4] \o nibbles_of[65535, 4])
                ELSE pos2addr(req.logaddr[1], checks)
    IN IF ~addr.ok THEN addr
       ELSE Ok(format_hex[nibbles_of[req.datetime[1], 2]
                          \o nibbles_of[req.datetime[2], 2]
                          \o nibbles_of[req.datetime[3], 4]
                          \o addr.val
                          \o nibbles_of[req.hour, 2] \o nibbles_of[req.minute, 2]
                          \o nibbles_of[req.second, 2] \o nibbles_of[req.day_of_week, 2]])

\* Message::to_payload()
to_payload(message, checks) ==
    LET id == MessageId_as_bytes(message.id)
        header == IF message.id \in RequestIds \ {"ReqInitialize"}
                  THEN ReqHeader_as_bytes(message.mac) ELSE <<>>
        body == CASE message.id = "ReqPowerBuffer" ->
                        ReqPowerBuffer_as_bytes(message.arg, checks)
                  [] message.id = "ReqSwitch" -> Ok(ReqSwitch_as_bytes(message.arg))
                  [] message.id = "ReqClockSet" -> ReqClockSet_as_bytes(message.arg, checks)
                  [] OTHER -> Ok(<<>>)
    IN IF message.id \notin RequestIds THEN Err(ErrProtocol)
       ELSE IF ~body.ok THEN body
       ELSE Ok(id \o header \o body.val)

(***************************************************************************)
(* What the transport can deliver to one read of the engine: a complete    *)
(* line, or an I/O error.  The lines are frames around the literal         *)
(* payloads of the simulator (src/src/stub.rs:72-118) and variations of    *)
(* them.                                                                   *)
(***************************************************************************)
Mac1 == <<0, 1, 2, 3, 4, 5, 6, 7, 8, 9, 10, 11, 12, 13, 14, 15>>
Mac2 == <<15, 14, 13, 12, 11, 10, 9, 8, 7, 6, 5, 4, 3, 2, 1, 0>>
Macs == {Mac1, Mac2}

InitBody == <<0, 1, 0, 1, 0, 0, 0, 0, 0, 0, 0, 0, 0, 0, 0, 0, 0, 0, 0, 0, 0, 0, 0, 0, 0, 0>>
InfoBodyOff == <<0, 15, 0, 4, 8, 9, 11, 8, 0, 0, 0, 4, 8, 3, 9, 8, 0, 0, 8, 5, 6, 5, 3, 9, 0, 7, 0, 1, 4, 0, 2, 3, 4, 14, 0, 8, 4, 4, 12, 2, 0, 2>>
InfoBodyOn == <<0, 15, 0, 4, 8, 9, 11, 8, 0, 0, 0, 4, 8, 3, 9, 8, 0, 1, 8, 5, 6, 5, 3, 9, 0, 7, 0, 1, 4, 0, 2, 3, 4, 14, 0, 8, 4, 4, 12, 2, 0, 2>>
\* an Info body whose log address 0 lies below ADDR_OFFS
InfoBodyLow == <<0, 15, 0, 4, 8, 9, 11, 8, 0, 0, 0, 0, 0, 0, 0, 0, 0, 0, 8, 5, 6, 5, 3, 9, 0, 7, 0, 1, 4, 0, 2, 3, 4, 14, 0, 8, 4, 4, 12, 2, 0, 2>>
CalibBody == <<0, 0, 0, 0, 0, 0, 0, 0, 0, 0, 0, 0, 0, 0, 0, 0, 0, 0, 0, 0, 0, 0, 0, 0, 0, 0, 0, 0, 0, 0, 0, 0>>
PowerBufferBody == <<0, 13, 0, 9, 4, 13, 1, 12, 0, 0, 0, 0, 0, 0, 7, 11, 0, 13, 0, 9, 4, 13, 5, 8, 0, 0, 0, 0, 0, 0, 7, 6, 0, 13, 0, 9, 4, 13, 9, 4, 0, 0, 0, 0, 0, 0, 7, 1, 0, 13, 0, 9, 4, 13, 13, 0, 0, 0, 0, 0, 0, 0, 3, 1, 0, 0, 0, 4, 4, 0, 0, 0>>
PowerUseBody == <<0, 0, 0, 0, 0, 0, 0, 0, 0, 0, 0, 0, 0, 0, 0, 0, 0, 0, 0, 0, 0, 0, 0, 0, 0, 0, 0, 0>>
ClockInfoBody == <<0, 11, 2, 4, 3, 10, 0, 6, 0, 1, 4, 5, 7, 10>>

\* a payload on the wire: identifier, sequence counter 0, then the nibbles
wire_payload(id, nibs) == format_hex[nibbles_of[id, 4] \o nibbles_of[0, 4] \o nibs]

\* an identifier value that is none of the enumerated ones
UnknownId == 153

\* the sequence counter of a response the stick made some requests ago
LateCount == 291

\* the payloads the stick may answer with, by name; res_info2_late is an
\* Info response of the second Circle with that counter
RxPayload ==
    [ack1 |-> wire_payload(ACK, nibbles_of[0, 4] \o Mac1),
     ack2 |-> wire_payload(ACK, nibbles_of[0, 4] \o Mac2),
     ack1_status |-> wire_payload(ACK, nibbles_of[225, 4] \o Mac1),
     ack_nomac |-> wire_payload(ACK, nibbles_of[193, 4]),
     res_init |-> wire_payload(RES_INITIALIZE, nibbles_of[0, 16] \o InitBody),
     res_info1 |-> wire_payload(RES_INFO, Mac1 \o InfoBodyOff),
     res_info2 |-> wire_payload(RES_INFO, Mac2 \o InfoBodyOn),
     res_calib |-> wire_payload(RES_CALIBRATION, Mac1 \o CalibBody),
     res_pbuf |-> wire_payload(RES_POWER_BUFFER, Mac1 \o PowerBufferBody),
     res_puse |-> wire_payload(RES_POWER_USE, Mac1 \o PowerUseBody),
     res_clock |-> wire_payload(RES_CLOCK_INFO, Mac1 \o ClockInfoBody),
     req_info |-> format_hex[nibbles_of[REQ_INFO, 4] \o Mac1],
     req_pbuf |-> format_hex[nibbles_of[REQ_POWER_BUFFER, 4] \o Mac1
                               \o nibbles_of[278528, 8]],
     unknown_ack1 |-> wire_payload(UnknownId, nibbles_of[0, 4] \o Mac1),
     trailing |-> wire_payload(RES_CLOCK_INFO, Mac1 \o ClockInfoBody \o <<0>>),
     res_info_low |-> wire_payload(RES_INFO, Mac1 \o InfoBodyLow),
     res_info2_late |-> format_hex[nibbles_of[RES_INFO, 4] \o nibbles_of[LateCount, 4]
                                     \o Mac2 \o InfoBodyOn]]

\* the lines one read_until can return: each payload in its frame, lines
\* that are no valid frame, and the empty line of a read of zero bytes
RxLine ==
    [n \in DOMAIN RxPayload |-> send_message_raw(RxPayload[n])] @@
    [bad_crc |-> HEADER \o RxPayload.ack1
                   \o format_hex[nibbles_of[(crc16_xmodem(RxPayload.ack1) + 1) % 65536, 4]]
                   \o FOOTER,
     no_footer |-> HEADER \o RxPayload.ack1
                   \o format_hex[nibbles_of[crc16_xmodem(RxPayload.ack1), 4]] \o <<EOM>>,
     noise |-> <<35, 13, 10>>,
     eof |-> <<>>]

RxNames == DOMAIN RxLine

\* the errors a read of the transport can fail with
ReadErrors == {ErrIoTimedOut, ErrIoOther}

(***************************************************************************)
(* Command engine: one pass of the loops, as functions of what was read.   *)
(***************************************************************************)
\* one pass of the loop of expect_message on a line: the line is skipped by
\* receive_plugwise_message_raw ("noise"), an error is returned ("err"), or a
\* message was decoded ("msg")
receive_and_decode(line, checks) ==
    IF plugwise_line(line).kind = "noise"
    THEN [kind |-> "noise", err |-> "none", msg |-> <<>>]
    ELSE The({IF ~raw.ok THEN [kind |-> "err", err |-> raw.err, msg |-> <<>>]
              ELSE The({IF ~msg.ok THEN [kind |-> "err", err |-> msg.err, msg |-> <<>>]
                        ELSE [kind |-> "msg", err |-> "none", msg |-> msg.val]
                        : msg \in {from_payload(raw.val, checks)}})
              : raw \in {receive_line(line)}})

\* every line of the catalogue decoded, for both kinds of build
Decoded ==
    [checks \in BOOLEAN |-> [n \in RxNames |-> receive_and_decode(RxLine[n], checks)]]

\* expect_message that returns whatever message was decoded
expect_message_any(msg, expected_message_id) == to_message_id(msg) \in MessageId

\* the test of expect_message on a decoded message
expect_message(msg, expected_message_id) == to_message_id(msg) = expected_message_id

\* wait_for_mac_ack that takes an Ack with any mac
wait_for_mac_ack_any_mac(msg, expected_mac) ==
    /\ msg.id = "Ack"
    /\ msg.body.mac # <<>>

\* wait_for_mac_ack that takes an Ack only when its status is 0
wait_for_mac_ack_status_zero(msg, expected_mac) ==
    /\ msg.id = "Ack"
    /\ msg.body.mac # <<>>
    /\ msg.body.mac[1] = expected_mac
    /\ msg.body.status = nibbles_of[0, 4]

\* the test of wait_for_mac_ack on a message expect_message returned
wait_for_mac_ack(msg, expected_mac) ==
    /\ msg.id = "Ack"
    /\ msg.body.mac # <<>>
    /\ msg.body.mac[1] = expected_mac

\* on_error that gives up one retry early
on_error_one_less(e, retries) ==
    IF retries <= 1 THEN "return"
    ELSE IF e \in {ErrIoTimedOut, ErrIoOther}
    THEN (IF e # ErrIoTimedOut THEN "return" ELSE "retry")
    ELSE "return"

\* on_error that retries on every I/O error, whatever its kind
on_error_any_io(e, retries) ==
    IF retries = 0 THEN "return"
    ELSE IF e \in {ErrIoTimedOut, ErrIoOther} THEN "retry"
    ELSE "return"

\* the error arm of send_and_expect and send_and_expect_ack: "return" the error
\* or "retry" with one retry less
on_error(e, retries) ==
    IF retries = 0 THEN "return"
    ELSE IF e \in {ErrIoTimedOut, ErrIoOther}
    THEN (IF e # ErrIoTimedOut THEN "return" ELSE "retry")
    ELSE "return"

\* the public operations: the request they send and the identifier they await
Ops ==
    [initialize |-> [req |-> "ReqInitialize", res |-> "ResInitialize", ack |-> FALSE],
     get_info |-> [req |-> "ReqInfo", res |-> "ResInfo", ack |-> FALSE],
     switch |-> [req |-> "ReqSwitch", res |-> "Ack", ack |-> TRUE],
     calibrate |-> [req |-> "ReqCalibration", res |-> "ResCalibration", ack |-> FALSE],
     get_power_buffer |-> [req |-> "ReqPowerBuffer", res |-> "ResPowerBuffer", ack |-> FALSE],
     get_power_usage |-> [req |-> "ReqPowerUse", res |-> "ResPowerUse", ack |-> FALSE],
     get_clock_info |-> [req |-> "ReqClockInfo", res |-> "ResClockInfo", ack |-> FALSE],
     set_clock |-> [req |-> "ReqClockSet", res |-> "Ack", ack |-> TRUE]]

OpNames == DOMAIN Ops

\* the match on the returned message at the end of a typed operation
typed_response(op, msg) ==
    IF Ops[op].ack THEN Ok(<<>>)
    ELSE IF msg.id = Ops[op].res THEN Ok(msg.body)
    ELSE Err(ErrUnexpectedResponse)

\* arguments the operations are called with
ClockSets ==
    {[datetime |-> DateTime_new_raw(15, 4, 35256),
      logaddr |-> <<>>, hour |-> 11, minute |-> 36, second |-> 58, day_of_week |-> 6]}

Args(op) ==
    CASE op = "switch" -> BOOLEAN
      [] op = "get_power_buffer" -> {nibbles_of[0, 8], nibbles_of[5, 8]}
      [] op = "set_clock" -> ClockSets
      [] OTHER -> {<<>>}

(***************************************************************************)
(* The simulator (src/src/stub.rs).  A Stub is [input, responses, output,  *)
(* plug]: the bytes written to it and not yet taken, the payloads of the   *)
(* responses that wait, the bytes of the frame that is being read, and the *)
(* switch state it remembers for each mac.                                 *)
(***************************************************************************)
\* Stub::new()
Stub_new == [input |-> <<>>, responses |-> <<>>, output |-> <<>>, plug |-> <<>>]

\* the identifiers handle_incoming compares the command with, as characters
StubCommand ==
    [initialize |-> format_hex[nibbles_of[10, 4]], clock_set |-> format_hex[nibbles_of[22, 4]],
     switch |-> format_hex[nibbles_of[23, 4]], info |-> format_hex[nibbles_of[35, 4]],
     calibration |-> format_hex[nibbles_of[38, 4]],
     power_buffer |-> format_hex[nibbles_of[72, 4]],
     power_use |-> format_hex[nibbles_of[18, 4]], clock_info |-> format_hex[nibbles_of[62, 4]]]

\* Stub::from_hex_buffer(buf): the value as nibbles; <<-1>> when an unwrap
\* panics
Stub_from_hex_buffer(buf) ==
    IF ~from_utf8[buf, 1] THEN <<-1>> ELSE from_str_radix[buf]

\* the switch state handle_incoming remembers for a command: <<state>>, or
\* <<>> for a command that changes none.  A clock set command is remembered
\* as a switch too.
Stub_remembered_also_clock_set(command, payload) ==
    IF command \in {StubCommand.switch, StubCommand.clock_set}
    THEN <<IF nib_value[Stub_from_hex_buffer(SubSeq(payload, 1, 2))] = 0
           THEN "Off" ELSE "On">>
    ELSE <<>>

\* the switch state handle_incoming remembers for a command: <<state>>, or
\* <<>> for a command that changes none (lines 59-69)
Stub_remembered(command, payload) ==
    IF command = StubCommand.switch
    THEN <<IF nib_value[Stub_from_hex_buffer(SubSeq(payload, 1, 2))] = 0
           THEN "Off" ELSE "On">>
    ELSE <<>>

\* the responses of the match of handle_incoming, with the response to an
\* info command pushed twice
Stub_responses_info_twice(command, macbuf, state) ==
    IF command = StubCommand.info
    THEN <<wire_payload(RES_INFO, macbuf \o (IF state = 0 THEN InfoBodyOff ELSE InfoBodyOn)),
           wire_payload(RES_INFO, macbuf \o (IF state = 0 THEN InfoBodyOff ELSE InfoBodyOn))>>
    ELSE <<wire_payload(ACK, nibbles_of[0, 4] \o macbuf)>>

\* a match of handle_incoming that answers a command it does not support
\* with an Ack
Stub_responses_ack_unknown(command, macbuf, state) ==
    IF command = StubCommand.info
    THEN <<wire_payload(RES_INFO, macbuf \o (IF state = 0 THEN InfoBodyOff ELSE InfoBodyOn))>>
    ELSE <<wire_payload(ACK, nibbles_of[0, 4] \o macbuf)>>

\* the match of handle_incoming on the command (lines 71-121): the payloads it
\* pushes on the responses, none for a command it does not support.  macbuf
\* is the mac as nibbles, state the relay state (0 or 1) kept for the mac.
Stub_responses(command, macbuf, state) ==
    CASE command = StubCommand.initialize ->
              <<wire_payload(RES_INITIALIZE, nibbles_of[0, 16] \o InitBody)>>
      [] command \in {StubCommand.clock_set, StubCommand.switch} ->
              <<wire_payload(ACK, nibbles_of[0, 4] \o macbuf)>>
      [] command = StubCommand.info ->
              <<wire_payload(RES_INFO,
                             macbuf \o (IF state = 0 THEN InfoBodyOff ELSE InfoBodyOn))>>
      [] command = StubCommand.calibration ->
              <<wire_payload(RES_CALIBRATION, macbuf \o CalibBody)>>
      [] command = StubCommand.power_buffer ->
              <<wire_payload(RES_POWER_BUFFER, macbuf \o PowerBufferBody)>>
      [] command = StubCommand.power_use ->
              <<wire_payload(RES_POWER_USE, macbuf \o PowerUseBody)>>
      [] command = StubCommand.clock_info ->
              <<wire_payload(RES_CLOCK_INFO, macbuf \o ClockInfoBody)>>
      [] OTHER -> <<>>

\* BTreeMap::insert(mac, switch) on the plug map
plug_insert(plug, mac, switch) ==
    [m \in DOMAIN plug \cup {mac} |-> IF m = mac THEN switch ELSE plug[m]]

\* the relay state handle_incoming reports for a mac: 1 when the map holds
\* On for it, 0 when it holds Off or nothing (lines 80-85)
plug_state(plug, mac) == IF mac \in DOMAIN plug /\ plug[mac] = "On" THEN 1 ELSE 0

\* Stub::handle_incoming(buf): [res, stub].  split_at and the unwraps of
\* from_hex_buffer panic on a buffer that is too short or not hexadecimal.
Stub_handle_incoming(stub, buf) ==
    IF Len(buf) < 4 THEN [res |-> Err(ErrPanic), stub |-> stub]
    ELSE IF SubSeq(buf, 1, 4) # StubCommand.initialize /\ Len(buf) < 20
    THEN [res |-> Err(ErrPanic), stub |-> stub]
    ELSE The({IF mac = <<-1>> THEN [res |-> Err(ErrPanic), stub |-> stub]
              ELSE The({IF command = StubCommand.switch
                             /\ (Len(payload) < 2
                                 \/ Stub_from_hex_buffer(SubSeq(payload, 1, 2)) = <<-1>>)
                        THEN [res |-> Err(ErrPanic), stub |-> stub]
                        ELSE The({The({IF resp = <<>>
                                       THEN [res |-> Err(ErrIoOther),
                                             stub |-> [stub EXCEPT !.plug = plug]]
                                       ELSE [res |-> Ok(<<>>),
                                             stub |-> [stub EXCEPT
                                                         !.plug = plug,
                                                         !.responses = @ \o resp]]
                                       : resp \in {Stub_responses(command, mac,
                                                                  plug_state(plug, mac))}})
                                  : plug \in {IF Stub_remembered(command, payload) = <<>>
                                              THEN stub.plug
                                              ELSE plug_insert(stub.plug, mac,
                                                     Stub_remembered(command, payload)[1])}})
                        : command \in {SubSeq(buf, 1, 4)},
                          payload \in {IF SubSeq(buf, 1, 4) = StubCommand.initialize
                                       THEN SubSeq(buf, 5, Len(buf))
                                       ELSE SubSeq(buf, 21, Len(buf))}})
              : mac \in {IF SubSeq(buf, 1, 4) = StubCommand.initialize
                         THEN nibbles_of[0, 16]
                         ELSE Stub_from_hex_buffer(SubSeq(buf, 5, 20))}})

\* Iterator::position / rposition of a byte value: the indexes (1-based)
\* where it occurs
byte_positions(buf, b) == {i \in 1..Len(buf) : buf[i] = b}

\* a write that takes the frame away from the input also when
\* handle_incoming failed on it
Stub_write_drops_rejected(stub, buf) ==
    The({IF byte_positions(input, 13) = {}
         THEN [res |-> Ok(Len(buf)), stub |-> [stub EXCEPT !.input = input]]
         ELSE The({IF byte_positions(SubSeq(input, 1, pos - 1), 3) = {}
                   THEN [res |-> Ok(Len(buf)), stub |-> [stub EXCEPT !.input = input]]
                   ELSE The({[res |-> IF h.res.ok THEN Ok(Len(buf)) ELSE h.res,
                              stub |-> [h.stub EXCEPT
                                          !.input = SubSeq(input, pos + 1, Len(input))]]
                             : h \in {Stub_handle_incoming(
                                        [stub EXCEPT !.input = input],
                                        SubSeq(input,
                                               Max(byte_positions(SubSeq(input, 1, pos - 1), 3)) + 1,
                                               pos - 1))}})
                   : pos \in {Min(byte_positions(input, 13))}})
         : input \in {stub.input \o buf}})

\* <Stub as io::Write>::write(buf): [res, stub].  The bytes are added to the
\* input; when the input holds a CR, what lies between the last byte 3 before
\* it and the CR goes to handle_incoming, and the input up to and including
\* the CR is taken away.
Stub_write(stub, buf) ==
    The({IF byte_positions(input, 13) = {}
         THEN [res |-> Ok(Len(buf)), stub |-> [stub EXCEPT !.input = input]]
         ELSE The({IF byte_positions(SubSeq(input, 1, pos - 1), 3) = {}
                   THEN [res |-> Ok(Len(buf)), stub |-> [stub EXCEPT !.input = input]]
                   ELSE The({IF ~h.res.ok THEN h
                             ELSE [res |-> Ok(Len(buf)),
                                   stub |-> [h.stub EXCEPT
                                               !.input = SubSeq(input, pos + 1, Len(input))]]
                             : h \in {Stub_handle_incoming(
                                        [stub EXCEPT !.input = input],
                                        SubSeq(input,
                                               Max(byte_positions(SubSeq(input, 1, pos - 1), 3)) + 1,
                                               pos - 1))}})
                   : pos \in {Min(byte_positions(input, 13))}})
         : input \in {stub.input \o buf}})

\* <Stub as io::Read>::read(buf) with buf.len() = n: [res, stub].  With no
\* output left the next response is framed into the output; the read fails
\* when there is none.
Stub_read(stub, n) ==
    IF Len(stub.output) = 0 /\ Len(stub.responses) = 0
    THEN [res |-> Err(ErrIoOther), stub |-> stub]
    ELSE The({[res |-> Ok(SubSeq(s.output, 1, Min({n, Len(s.output)}))),
               stub |-> [s EXCEPT !.output = SubSeq(s.output, Min({n, Len(s.output)}) + 1,
                                                    Len(s.output))]]
              : s \in {IF Len(stub.output) # 0 THEN stub
                       ELSE [stub EXCEPT
                               !.responses = Tail(stub.responses),
                               !.output = HEADER \o Head(stub.responses)
                                            \o format_hex[nibbles_of[
                                                  crc16_xmodem(Head(stub.responses)), 4]]
                                            \o FOOTER]}})

\* the capacity of the BufReader of Protocol::new
READER_CAPACITY == 1000

RECURSIVE reader_read_until(_, _)
\* BufRead::read_until(EOM) of the BufReader over the Stub: [res, reader],
\* where a reader is [buf, port], the bytes it buffered and the Stub.  acc is
\* what was read of the line so far.
reader_read_until(reader, acc) ==
    The({IF ~fill.res.ok THEN [res |-> fill.res, reader |-> [reader EXCEPT !.port = fill.stub]]
         ELSE IF fill.res.val = <<>>
         THEN [res |-> Ok(acc), reader |-> [buf |-> <<>>, port |-> fill.stub]]
         ELSE The({IF e = 0
                   THEN reader_read_until([buf |-> <<>>, port |-> fill.stub],
                                          acc \o fill.res.val)
                   ELSE [res |-> Ok(acc \o SubSeq(fill.res.val, 1, e)),
                         reader |-> [buf |-> SubSeq(fill.res.val, e + 1, Len(fill.res.val)),
                                     port |-> fill.stub]]
                   : e \in {first_eom(fill.res.val)}})
         : fill \in {IF reader.buf # <<>>
                     THEN [res |-> Ok(reader.buf), stub |-> reader.port]
                     ELSE Stub_read(reader.port, READER_CAPACITY)}})

RECURSIVE write_parts(_, _, _)
\* the writes of send_message_raw on the Stub, one part after the other:
\* [at, res, stub] with at = 0 when all succeeded and the number of the write
\* that failed otherwise
write_parts(stub, parts, k) ==
    IF parts = <<>> THEN [at |-> 0, res |-> Ok(<<>>), stub |-> stub]
    ELSE The({IF ~w.res.ok THEN [at |-> k, res |-> w.res, stub |-> w.stub]
              ELSE write_parts(w.stub, Tail(parts), k + 1)
              : w \in {Stub_write(stub, Head(parts))}})

(***************************************************************************)
(* The device facade (src/src/lib.rs): calendar time and conversions.      *)
(***************************************************************************)
\* the number of days from 1970-01-01 to the day d of month m (1..12) of the
\* year y of the proleptic Gregorian calendar; a day past the end of the
\* month counts on into the next one
days_from_civil(y, m, d) ==
    LET yy == IF m <= 2 THEN y - 1 ELSE y
        era == yy \div 400
        yoe == yy - era * 400
        doy == ((153 * (IF m > 2 THEN m - 3 ELSE m + 9) + 2) \div 5) + d - 1
        doe == yoe * 365 + (yoe \div 4) - (yoe \div 100) + doy
    IN era * 146097 + doe - 719468

\* Tm::to_timespec() of a UTC Tm with tm_sec = 0, in minutes: the Timespec is
\* 60 times this many seconds.  Fields out of range are carried over, a
\* month number above 11 into the year.
to_timespec(tm_year, tm_mon, tm_mday, tm_hour, tm_min) ==
    days_from_civil(1900 + tm_year + (tm_mon \div 12), (tm_mon % 12) + 1, tm_mday) * 1440
    + tm_hour * 60 + tm_min

\* the year, the month (1..12) and the day of the month of the day number
\* z, counted from 1970-01-01
civil_from_days(z) ==
    LET zz == z + 719468
        era == zz \div 146097
        doe == zz - era * 146097
        yoe == (doe - (doe \div 1460) + (doe \div 36524) - (doe \div 146096)) \div 365
        doy == doe - (365 * yoe + (yoe \div 4) - (yoe \div 100))
        mp == (5 * doy + 2) \div 153
        d == doy - ((153 * mp + 2) \div 5) + 1
        m == IF mp < 10 THEN mp + 3 ELSE mp - 9
    IN <<yoe + era * 400 + (IF m <= 2 THEN 1 ELSE 0), m, d>>

\* time::at_utc of a Timespec given in minutes: the Tm in UTC of that time,
\* tm_utcoff being 0
at_utc(ts) ==
    The({[tm_year |-> date[1] - 1900, tm_mon |-> date[2] - 1, tm_mday |-> date[3],
          tm_hour |-> (ts % 1440) \div 60, tm_min |-> ts % 60, tm_sec |-> 0,
          tm_wday |-> ((ts \div 1440) + 4) % 7, tm_utcoff |-> 0]
         : date \in {civil_from_days(ts \div 1440)}})

\* time::at of a Timespec given in minutes in a zone that is utcoff seconds
\* east of UTC: the Tm of the local time, tm_utcoff being that offset
at_zone(ts, utcoff) == [at_utc(ts + (utcoff \div 60)) EXCEPT !.tm_utcoff = utcoff]

\* to_tm that does not cut the hours to the day
DateTime_to_tm_hours_of_month(dt, checks) ==
    [kind |-> "some",
     ts |-> to_timespec(100 + dt[1], dt[2] - 1, 1 + (dt[3] \div 1440), dt[3] \div 60,
                        dt[3] % 60),
     tm |-> [tm_year |-> 100 + dt[1], tm_mon |-> dt[2] - 1,
             tm_mday |-> 1 + (dt[3] \div 1440), tm_hour |-> dt[3] \div 60,
             tm_min |-> dt[3] % 60, tm_sec |-> 0, tm_wday |-> 0, tm_utcoff |-> 0]]

\* DateTime::to_tm(): [kind, ts] with kind "none" for None and "some" for
\* Some(tm), ts being the Timespec of tm in minutes.  months - 1 is computed
\* on u8: with months = 0 it overflows, a panic ("panic") when the build
\* checks overflow and 255 when it does not.
\* The Tm is built with tm_wday = 0 and tm_utcoff = 0, and Tm::to_utc()
\* returns a Tm of tm_utcoff = 0 as it is: tm is that Tm, ts its to_timespec().
DateTime_to_tm(dt, checks) ==
    LET min == dt[3] % 60
        hours == (dt[3] \div 60) % 24
        mday == 1 + (dt[3] \div (24 * 60))
        mon == IF dt[2] = 0 THEN 255 ELSE dt[2] - 1
    IN IF dt[2] > 12 \/ mday > 31 THEN [kind |-> "none", ts |-> 0, tm |-> <<>>]
       ELSE IF dt[2] = 0 /\ checks THEN [kind |-> "panic", ts |-> 0, tm |-> <<>>]
       ELSE [kind |-> "some",
             ts |-> to_timespec(100 + dt[1], mon, mday, hours, min),
             tm |-> [tm_year |-> 100 + dt[1], tm_mon |-> mon, tm_mday |-> mday,
                     tm_hour |-> hours, tm_min |-> min, tm_sec |-> 0,
                     tm_wday |-> 0, tm_utcoff |-> 0]]

\* Tm::to_utc() that keeps the fields of a Tm of another zone
Tm_to_utc_keeps_fields(tm, zone) == [tm EXCEPT !.tm_utcoff = 0]

\* Tm::to_utc(): a Tm of tm_utcoff = 0 is returned as it is; another one goes
\* through to_timespec(), which reads its fields with mktime as a local time
\* of the zone of the process, zone seconds east of UTC, whatever tm_utcoff
\* says, and carries seconds outside 0..59 into the minutes; at_utc gives
\* the Tm of that time
Tm_to_utc(tm, zone) ==
    IF tm.tm_utcoff = 0 THEN tm
    ELSE [at_utc(to_timespec(tm.tm_year, tm.tm_mon, tm.tm_mday, tm.tm_hour, tm.tm_min)
                 + ((tm.tm_sec - zone) \div 60))
             EXCEPT !.tm_sec = (tm.tm_sec - zone) % 60]

\* DateTime::new(timestamp): the fields are cut to u8, u8 and u16 by `as`
DateTime_new(timestamp, zone) ==
    The({DateTime_new_raw((utc.tm_year - 100) % 256, (utc.tm_mon + 1) % 256,
                          ((utc.tm_mday - 1) * 24 * 60 + utc.tm_hour * 60 + utc.tm_min)
                             % 65536)
         : utc \in {Tm_to_utc(timestamp, zone)}})

\* ReqClockSet::new_from_tm that takes the day of the week as it is
ReqClockSet_new_from_tm_same_day(tm, zone) ==
    The({Ok([datetime |-> DateTime_new(utc, zone), logaddr |-> <<>>,
             hour |-> utc.tm_hour % 256,
             minute |-> utc.tm_min % 256, second |-> utc.tm_sec % 256,
             day_of_week |-> tm.tm_wday])
         : utc \in {Tm_to_utc(tm, zone)}})

\* ReqClockSet::new_from_tm(tm): Ok(request), or a panic for a tm_wday that
\* is none of 0..6 (unreachable!)
ReqClockSet_new_from_tm(tm, zone) ==
    IF tm.tm_wday \notin 0..6 THEN Err(ErrPanic)
    ELSE The({Ok([datetime |-> DateTime_new(utc, zone), logaddr |-> <<>>,
                  hour |-> utc.tm_hour % 256, minute |-> utc.tm_min % 256,
                  second |-> utc.tm_sec % 256,
                  day_of_week |-> IF tm.tm_wday = 0 THEN 7 ELSE tm.tm_wday])
              : utc \in {Tm_to_utc(tm, zone)}})

(***************************************************************************)
(* f64 arithmetic of src/src/protocol/messages/mod.rs 35-60.  A natural    *)
(* number is the sequence of its digits to the base LIMB, lowest first,    *)
(* without leading zeros; a finite f64 is [s, e, m]: the value             *)
(* (-1)^s * m * 2^e with m of 53 bits, or m = <<>> for zero.  Every        *)
(* operation rounds to nearest, ties to even.                              *)
(***************************************************************************)
LIMB_BITS == 12

pow2[k \in 0..LIMB_BITS] == IF k = 0 THEN 1 ELSE 2 * pow2[k - 1]

LIMB == pow2[LIMB_BITS]

RECURSIVE bn_norm(_)
bn_norm(a) ==
    IF a # <<>> /\ a[Len(a)] = 0 THEN bn_norm(SubSeq(a, 1, Len(a) - 1)) ELSE a

RECURSIVE bn_add_carry(_, _, _)
bn_add_carry(a, b, c) ==
    IF a = <<>> /\ b = <<>> THEN (IF c = 0 THEN <<>> ELSE <<c>>)
    ELSE LET t == (IF a = <<>> THEN 0 ELSE a[1]) + (IF b = <<>> THEN 0 ELSE b[1]) + c
         IN <<t % LIMB>> \o bn_add_carry(IF a = <<>> THEN a ELSE Tail(a),
                                         IF b = <<>> THEN b ELSE Tail(b), t \div LIMB)

bn_add(a, b) == bn_add_carry(a, b, 0)

RECURSIVE bn_sub_borrow(_, _, _)
bn_sub_borrow(a, b, c) ==
    IF a = <<>> THEN <<>>
    ELSE LET t == a[1] - (IF b = <<>> THEN 0 ELSE b[1]) - c
         IN <<IF t < 0 THEN t + LIMB ELSE t>>
            \o bn_sub_borrow(Tail(a), IF b = <<>> THEN b ELSE Tail(b),
                             IF t < 0 THEN 1 ELSE 0)

\* a - b for a >= b
bn_sub(a, b) == bn_norm(bn_sub_borrow(a, b, 0))

\* -1, 0 or 1 as a is below, equal to or above b
bn_cmp(a, b) ==
    IF Len(a) # Len(b) THEN (IF Len(a) < Len(b) THEN -1 ELSE 1)
    ELSE LET d == {i \in 1..Len(a) : a[i] # b[i]}
         IN IF d = {} THEN 0 ELSE IF a[Max(d)] < b[Max(d)] THEN -1 ELSE 1

RECURSIVE bn_mul_small(_, _, _)
\* a * d + c for d, c < LIMB
bn_mul_small(a, d, c) ==
    IF a = <<>> THEN (IF c = 0 THEN <<>> ELSE <<c>>)
    ELSE LET t == a[1] * d + c
         IN <<t % LIMB>> \o bn_mul_small(Tail(a), d, t \div LIMB)

RECURSIVE bn_mul_limbs(_, _)
bn_mul_limbs(a, b) ==
    IF b = <<>> THEN <<>>
    ELSE bn_add(bn_mul_small(a, b[1], 0), <<0>> \o bn_mul_limbs(a, Tail(b)))

bn_mul(a, b) == bn_norm(bn_mul_limbs(a, b))

\* the number of bits of a
bn_bitlen(a) ==
    IF a = <<>> THEN 0
    ELSE LIMB_BITS * (Len(a) - 1)
         + (CHOOSE k \in 1..LIMB_BITS : pow2[k - 1] <= a[Len(a)] /\ a[Len(a)] < pow2[k])

\* bit i of a, bit 0 the lowest
bn_bit(a, i) ==
    IF i \div LIMB_BITS + 1 > Len(a) THEN 0
    ELSE (a[i \div LIMB_BITS + 1] \div pow2[i % LIMB_BITS]) % 2

\* a * 2^k
bn_shl(a, k) ==
    bn_norm([i \in 1..(k \div LIMB_BITS) |-> 0] \o bn_mul_small(a, pow2[k % LIMB_BITS], 0))

\* a / 2^k, rounded down
bn_shr(a, k) ==
    LET b == SubSeq(a, k \div LIMB_BITS + 1, Len(a))
        s == k % LIMB_BITS
    IN bn_norm([i \in 1..Len(b) |->
                  (b[i] \div pow2[s])
                  + ((IF i < Len(b) THEN b[i + 1] ELSE 0) % pow2[s]) * pow2[LIMB_BITS - s]])

\* one step of the long division of a by b: bit i of a joins the remainder
bn_divmod_step(a, b, i, q, r) ==
    The({IF bn_cmp(r2, b) >= 0
         THEN [q |-> bn_add(bn_shl(q, 1), <<1>>), r |-> bn_sub(r2, b)]
         ELSE [q |-> bn_shl(q, 1), r |-> r2]
         : r2 \in {bn_add(bn_shl(r, 1), IF bn_bit(a, i) = 1 THEN <<1>> ELSE <<>>)}})

RECURSIVE bn_divmod_bits(_, _, _, _, _, _)
\* the steps of the long division for the bits hi down to lo of a
bn_divmod_bits(a, b, hi, lo, q, r) ==
    IF hi < lo THEN [q |-> q, r |-> r]
    ELSE The({bn_divmod_bits(a, b, hi - 1, lo, d.q, d.r)
              : d \in {bn_divmod_step(a, b, hi, q, r)}})

RECURSIVE bn_divmod_limbs(_, _, _, _, _)
\* the steps of the long division for the digits j down to 1 of a
bn_divmod_limbs(a, b, j, q, r) ==
    IF j < 1 THEN [q |-> q, r |-> r]
    ELSE The({bn_divmod_limbs(a, b, j - 1, d.q, d.r)
              : d \in {bn_divmod_bits(a, b, LIMB_BITS * j - 1, LIMB_BITS * (j - 1), q, r)}})

\* quotient and remainder of a / b for b > 0
bn_divmod(a, b) == bn_divmod_limbs(a, b, Len(a), <<>>, <<>>)

RECURSIVE bn_from_digits(_, _)
\* the number with the digits h to this base, highest first
bn_from_digits(h, base) ==
    IF h = <<>> THEN <<>>
    ELSE bn_norm(bn_add(bn_mul_small(bn_from_digits(SubSeq(h, 1, Len(h) - 1), base), base, 0),
                        <<h[Len(h)]>>))

bn_from_nibbles(h) == bn_from_digits(h, 16)

RECURSIVE bn_from_int(_)
bn_from_int(n) == IF n = 0 THEN <<>> ELSE <<n % LIMB>> \o bn_from_int(n \div LIMB)

F64_MANTISSA_DIGITS == 53

f64_zero(s) == [s |-> s, e |-> 0, m |-> <<>>]

\* the f64 nearest to (-1)^s * M * 2^E, the even one of two that are equally
\* near
f64_round(s, M, E) ==
    IF M = <<>> THEN f64_zero(s)
    ELSE LET n == bn_bitlen(M)
         IN IF n <= F64_MANTISSA_DIGITS
            THEN [s |-> s, e |-> E - (F64_MANTISSA_DIGITS - n),
                  m |-> bn_shl(M, F64_MANTISSA_DIGITS - n)]
            ELSE LET k == n - F64_MANTISSA_DIGITS
                     q == bn_shr(M, k)
                     c == bn_cmp(bn_sub(M, bn_shl(q, k)), bn_shl(<<1>>, k - 1))
                     q2 == IF c > 0 \/ (c = 0 /\ q[1] % 2 = 1) THEN bn_add(q, <<1>>) ELSE q
                 IN IF bn_bitlen(q2) > F64_MANTISSA_DIGITS
                    THEN [s |-> s, e |-> E + k + 1, m |-> bn_shr(q2, 1)]
                    ELSE [s |-> s, e |-> E + k, m |-> q2]

\* x * y
f64_mul(x, y) == f64_round((x.s + y.s) % 2, bn_mul(x.m, y.m), x.e + y.e)

\* bits kept below the quotient of a division and below the larger term of a
\* sum
F64_GUARD_BITS == F64_MANTISSA_DIGITS + 3

\* x / y for y # 0
f64_div(x, y) ==
    LET d == bn_divmod(bn_shl(x.m, F64_GUARD_BITS), y.m)
    IN f64_round((x.s + y.s) % 2,
                 bn_add(bn_shl(d.q, 1), IF d.r = <<>> THEN <<>> ELSE <<1>>),
                 x.e - y.e - F64_GUARD_BITS - 1)

\* x + y for x.e >= y.e, neither zero
f64_add_ordered(x, y) ==
    LET far == x.e - y.e > F64_GUARD_BITS
        E == IF far THEN x.e - F64_GUARD_BITS ELSE y.e
        X == bn_shl(x.m, x.e - E)
        Y == IF far THEN <<1>> ELSE y.m
    IN IF x.s = y.s THEN f64_round(x.s, bn_add(X, Y), E)
       ELSE IF bn_cmp(X, Y) = 0 THEN f64_zero(0)
       ELSE IF bn_cmp(X, Y) > 0 THEN f64_round(x.s, bn_sub(X, Y), E)
       ELSE f64_round(y.s, bn_sub(Y, X), E)

\* x + y
f64_add(x, y) ==
    IF x.m = <<>> /\ y.m = <<>> THEN f64_zero(IF x.s = 1 /\ y.s = 1 THEN 1 ELSE 0)
    ELSE IF x.m = <<>> THEN y
    ELSE IF y.m = <<>> THEN x
    ELSE IF x.e >= y.e THEN f64_add_ordered(x, y) ELSE f64_add_ordered(y, x)

\* x == y of two f64
f64_eq(x, y) == x.m = y.m /\ (x.m = <<>> \/ (x.s = y.s /\ x.e = y.e))

\* `n as f64` for an unsigned integer given as nibbles
f64_from_nibbles(h) == f64_round(0, bn_from_nibbles(h), 0)

\* `n as f64` for a small integer
f64_from_int(n) == f64_round(0, bn_from_int(n), 0)

\* `x as f64` for an f32 given as the 8 nibbles of its bits; <<>> for an
\* infinity or a NaN
f64_from_f32(h) ==
    LET s == h[1] \div 8
        ex == (h[1] % 8) * 32 + h[2] * 2 + h[3] \div 8
        frac == bn_from_nibbles(<<h[3] % 8>> \o SubSeq(h, 4, 8))
    IN IF ex = 255 THEN <<>>
       ELSE IF ex = 0 THEN <<f64_round(s, frac, -149)>>
       ELSE <<f64_round(s, bn_add(frac, bn_shl(<<1>>, 23)), ex - 150)>>

\* PULSES_PER_KW: f64 = 468.9385193, the f64 nearest to 4689385193 / 10^7
PULSES_PER_KW ==
    f64_div(f64_round(0, bn_from_digits(<<4, 6, 8, 9, 3, 8, 5, 1, 9, 3>>, 10), 0),
            f64_from_int(10000000))

\* to_pulses_per_second that takes only 0 pulses for no measurement
Pulses_to_pulses_per_second_but_ffff(pulses, calibration) ==
    IF pulses.pulses = nibbles_of[0, 8]
    THEN f64_zero(0)
    ELSE LET noise_corrected ==
                 f64_add(f64_div(f64_from_nibbles(pulses.pulses),
                                 f64_from_int(pulses.timespan)),
                         f64_from_f32(calibration.off_noise)[1])
         IN f64_add(f64_add(f64_mul(f64_mul(noise_corrected, noise_corrected),
                                    f64_from_f32(calibration.gain_b)[1]),
                            f64_mul(noise_corrected, f64_from_f32(calibration.gain_a)[1])),
                    f64_from_f32(calibration.off_total)[1])

\* Pulses::to_pulses_per_second(calibration), the calibration constants
\* being finite
Pulses_to_pulses_per_second(pulses, calibration) ==
    IF pulses.pulses \in {nibbles_of[0, 8], nibbles_of[0, 4] \o nibbles_of[65535, 4]}
    THEN f64_zero(0)
    ELSE LET noise_corrected ==
                 f64_add(f64_div(f64_from_nibbles(pulses.pulses),
                                 f64_from_int(pulses.timespan)),
                         f64_from_f32(calibration.off_noise)[1])
         IN f64_add(f64_add(f64_mul(f64_mul(noise_corrected, noise_corrected),
                                    f64_from_f32(calibration.gain_b)[1]),
                            f64_mul(noise_corrected, f64_from_f32(calibration.gain_a)[1])),
                    f64_from_f32(calibration.off_total)[1])

\* Pulses::to_kw(calibration)
Pulses_to_kw(pulses, calibration) ==
    f64_div(Pulses_to_pulses_per_second(pulses, calibration), PULSES_PER_KW)

\* Pulses::to_watts(calibration)
Pulses_to_watts(pulses, calibration) ==
    f64_mul(Pulses_to_kw(pulses, calibration), f64_from_int(1000))

\* a to_kwh that takes the timespan for minutes
Pulses_to_kwh_of_minutes(pulses, calibration) ==
    f64_mul(Pulses_to_kw(pulses, calibration),
            f64_div(f64_from_int(pulses.timespan), f64_from_int(60)))

\* Pulses::to_kwh(calibration)
Pulses_to_kwh(pulses, calibration) ==
    f64_mul(Pulses_to_kw(pulses, calibration),
            f64_div(f64_from_int(pulses.timespan), f64_from_int(3600)))

\* Pulses::to_kwh(calibration) and Pulses::to_watts(calibration) as terms
\* over the pulses and the calibration they are computed from: 0.0 for 0 and
\* for 0xffff pulses
to_energy(unit, pulses, calibration) ==
    IF pulses.pulses \in {nibbles_of[0, 8], nibbles_of[0, 4] \o nibbles_of[65535, 4]}
    THEN [unit |-> unit, zero |-> TRUE, pulses |-> nibbles_of[0, 8], timespan |-> 0,
          calibration |-> <<>>]
    ELSE [unit |-> unit, zero |-> FALSE, pulses |-> pulses.pulses,
          timespan |-> pulses.timespan, calibration |-> <<calibration>>]

\* BTreeMap::insert(key, value) on a map given as its entries in iteration
\* order: the value of a key the map holds is replaced
btree_insert(map, key, value) ==
    IF \E i \in 1..Len(map) : map[i].key = key
    THEN [i \in 1..Len(map) |->
            IF map[i].key = key THEN [key |-> key, value |-> value] ELSE map[i]]
    ELSE LET before == Cardinality({i \in 1..Len(map) : map[i].key < key})
         IN SubSeq(map, 1, before) \o <<[key |-> key, value |-> value]>>
            \o SubSeq(map, before + 1, Len(map))

\* CircleInner::get_power_buffer_helper(map, datetime, pulses): <<map>>, or
\* <<>> when to_tm panics
get_power_buffer_helper(map, datetime, pulses, calibration, checks) ==
    The({IF tm.kind = "panic" THEN <<>>
         ELSE IF tm.kind = "some"
         THEN <<btree_insert(map, tm.ts, to_energy("kWh", pulses, calibration))>>
         ELSE <<map>>
         : tm \in {DateTime_to_tm(datetime, checks)}})

\* the (datetime, pulses) pairs of a ResPowerBuffer in the order
\* get_power_buffer hands them to the helper
buffer_pairs(buffer) ==
    <<[datetime |-> buffer.datetime1, pulses |-> buffer.pulses1],
      [datetime |-> buffer.datetime2, pulses |-> buffer.pulses2],
      [datetime |-> buffer.datetime3, pulses |-> buffer.pulses3],
      [datetime |-> buffer.datetime4, pulses |-> buffer.pulses4]>>

RECURSIVE helper_calls(_, _, _, _)
\* the calls of the helper in the body of the loop of get_power_buffer, one
\* pair after the other: <<map>>, or <<>> when one of them panics
helper_calls(map, pairs, calibration, checks) ==
    IF pairs = <<>> THEN <<map>>
    ELSE The({IF m = <<>> THEN <<>>
              ELSE helper_calls(m[1], Tail(pairs), calibration, checks)
              : m \in {get_power_buffer_helper(map, Head(pairs).datetime,
                                               Head(pairs).pulses, calibration, checks)}})

ErrNotOnline == "Io:Other(not online)"
ErrInvalidTimestamp == "Io:Other(circle returns an invalid timestamp)"

\* PlugwiseInner::initialize that does not look at the online flag
PlugwiseInner_initialize_any(outcome) ==
    IF ~outcome.ok THEN outcome ELSE Ok("stick")

\* PlugwiseInner::initialize(port), given what Protocol::initialize returned:
\* Ok("stick") for the facade, or the error
PlugwiseInner_initialize(outcome) ==
    IF ~outcome.ok THEN outcome
    ELSE IF ~outcome.val.is_online THEN Err(ErrNotOnline)
    ELSE Ok("stick")

\* create_circle that falls back to a zero calibration
create_circle_uncalibrated(mac, outcome) ==
    IF ~outcome.ok THEN Ok([mac |-> mac, calibration_data |-> <<>>])
    ELSE Ok([mac |-> mac, calibration_data |-> outcome.val])

\* PlugwiseInner::create_circle(mac), given what Protocol::calibrate
\* returned: Ok(CircleInner) or the error
create_circle(mac, outcome) ==
    IF ~outcome.ok THEN outcome
    ELSE Ok([mac |-> mac, calibration_data |-> outcome.val])

\* the first index of get_power_buffer when max_entries counts blocks
power_buffer_start_per_block(max_entries, last_logaddr) ==
    IF max_entries = <<>> THEN 0
    ELSE IF last_logaddr > max_entries[1] THEN last_logaddr - max_entries[1] ELSE 0

\* the first index of the loop of get_power_buffer; max_entries is <<>> for
\* None and <<n>> for Some(n)
power_buffer_start(max_entries, last_logaddr) ==
    IF max_entries = <<>> THEN 0
    ELSE LET n_of_calls == max_entries[1] \div 4
         IN IF last_logaddr > n_of_calls THEN last_logaddr - n_of_calls ELSE 0

\* the operations of a Circle without an argument that make one call of the
\* engine, and the operation of the engine each of them calls
circle_exchange ==
    [switch_on |-> "switch", switch_off |-> "switch", is_switched_on |-> "get_info",
     get_actual_watt_usage |-> "get_power_usage"]

\* what such an operation returns when the call of the engine returned
\* outcome
circle_return(op, circle, outcome) ==
    IF ~outcome.ok THEN outcome
    ELSE CASE op = "is_switched_on" -> Ok(outcome.val.relay_state)
           [] op = "get_actual_watt_usage" ->
                Ok(to_energy("W", outcome.val.pulse_8s, circle.calibration_data))
           [] OTHER -> Ok(<<>>)

\* what get_clock returns when get_info and get_clock_info returned info and
\* clock: the Tm of the DateTime of info with the time and the day of the
\* week of clock
get_clock_return(info, clock, checks) ==
    IF ~info.ok THEN info
    ELSE IF ~clock.ok THEN clock
    ELSE The({IF tm.kind = "panic" THEN Err(ErrPanic)
              ELSE IF tm.kind = "none" THEN Err(ErrInvalidTimestamp)
              ELSE Ok([tm.tm EXCEPT !.tm_sec = clock.val.second,
                              !.tm_min = clock.val.minute,
                              !.tm_hour = clock.val.hour,
                              !.tm_wday = clock.val.day_of_week % 7])
              : tm \in {DateTime_to_tm(info.val.datetime, checks)}})

(***************************************************************************)
(* State.                                                                  *)
(*                                                                         *)
(* Command engine (Spec): a Protocol over a transport whose reads return   *)
(* what the environment chooses.  One public operation runs at a time, from *)
(* its call to its return.                                                 *)
(*                                                                         *)
(* Frame layer scenario (FrameSpec): a payload goes through                *)
(* send_message_raw into the transport, a byte of it may be replaced in    *)
(* transit, and receive_message_raw reads it back.                         *)
(*                                                                         *)
(* Codec scenario (CodecSpec): a payload, one the stick answers with or    *)
(* the one to_payload makes of a request, is decoded by from_payload as it *)
(* is, with one byte appended or with bytes cut off its end, and the       *)
(* decoded message is encoded again by to_payload.                         *)
(*                                                                         *)
(* Simulator scenario (SimSpec): the command engine over a Stub.  The      *)
(* writes of a send go to Stub::write and the reads of the await loop come *)
(* from Stub::read through the BufReader of the engine.                    *)
(*                                                                         *)
(* Device facade (LibSpec): the operations of src/src/lib.rs over an       *)
(* engine of which each call, one exchange, returns an error or the body   *)
(* decoded from a response of the stick.                                   *)
(***************************************************************************)
VARIABLES
    build_checks, \* TRUE when the build panics on arithmetic overflow
    self_retries, \* Protocol.retries
    pc,           \* "idle", "send" (about to send), "await" (in the read loop),
                  \* "panicked"
    cmd,          \* the operation that runs or ran last: [op, message, n0]
    retries,      \* the local `retries` of send_and_expect(_ack)
    sent,         \* the bytes handed to the transport by each send of cmd
    nreads,       \* reads of the transport made for cmd
    ntimeouts,    \* how many of them timed out
    ndiscards,    \* how many returned a line that was skipped or discarded
    rx_last,      \* what the last read returned: a name of RxLine or an error
    got,          \* the message the await loop returned: <<msg>>, or <<>>
    werr,         \* TRUE when a write of cmd failed
    result,       \* what cmd returned
    f_pc,       \* "start", "sent", "received"
    f_payload,  \* the payload given to send_message_raw
    f_wire,     \* the bytes the transport holds for the reader
    f_mod,      \* the byte replaced in transit: [pos, byte], pos = 0 for none
    f_out,      \* what receive_message_raw returned, with the line it parsed
    c_pc,       \* "start", "ready", "decoded", "panicked", "reencoded"
    c_src,      \* where the payload comes from: a response by name or a request
    c_payload,  \* the payload given to from_payload
    c_edit,     \* what was done to the payload: [kind, n]
    c_out,      \* what from_payload returned
    c_re,       \* what to_payload returned for the decoded message
    reader,     \* Protocol.reader over the Stub: [buf, port]
    last_switch,\* per mac, the value of the last switch that completed
    stick,      \* "none" before the connection, "online" when
                \* PlugwiseInner::initialize returned the facade, else "failed"
    circles,    \* the CircleInner handles created: [mac, calibration_data]
    api_pc,     \* "idle", "buffer" (in the loop of get_power_buffer), "panicked"
    api_call,   \* the facade operation that runs or ran last: [op, handle, arg]
    api_log,    \* the calls of the engine it made: [op, mac, arg, outcome]
    api_info,   \* get_power_buffer: <<info>>, the ResInfo it got
    api_index,  \* get_power_buffer: the index of the loop
    api_map,    \* get_power_buffer: `result`, the entries in iteration order
    api_read,   \* get_power_buffer: the (datetime, pulses) pairs read so far
    api_result, \* what the facade operation returned
    power,      \* Pulses and a calibration, and what was computed from them
    clk,        \* a calendar time, and what was made from it: [tm, datetime, back, request]
    spent       \* the timeouts the exchange before the one in hand ran into

engine_vars == <<build_checks, self_retries, pc, cmd, retries, sent, nreads,
                 ntimeouts, ndiscards, rx_last, got, werr, result>>
frame_vars == <<f_pc, f_payload, f_wire, f_mod, f_out>>
codec_vars == <<c_pc, c_src, c_payload, c_edit, c_out, c_re>>
\* the variables the frame layer scenario and the command engine leave alone
sim_vars == <<reader, last_switch>>
api_vars == <<stick, circles, api_pc, api_call, api_log, api_info, api_index, api_map,
              api_read, api_result>>
power_vars == <<power>>
clk_vars == <<clk>>
hist_vars == <<spent>>
beside_frame == <<engine_vars, codec_vars, sim_vars, api_vars, power_vars, clk_vars, hist_vars>>
beside_engine == <<frame_vars, codec_vars, sim_vars, api_vars, power_vars, clk_vars, hist_vars>>

\* byte values payloads are drawn from: the header bytes, CR, LF, hex digits
PayloadBytes == {3, 5, 10, 13, 48, 70}
\* byte values a byte in transit is replaced by: LF, CR, hex digits of both
\* cases, a non-hex letter and a non-ASCII byte
TransitBytes == {10, 13, 48, 49, 70, 102, 88, 255}

RECURSIVE SeqsUpTo(_, _)
\* the sequences over S of length at most n
SeqsUpTo(S, n) ==
    IF n = 0 THEN {<<>>}
    ELSE LET shorter == SeqsUpTo(S, n - 1)
         IN shorter \cup {Append(q, x) : q \in {r \in shorter : Len(r) = n - 1}, x \in S}

NoOut == [res |-> Err("none"), rest |-> <<>>, buf |-> <<>>, hpos |-> -1, fpos |-> -1]
NoMod == [pos |-> 0, byte |-> 0]

FrameStart ==
    /\ f_pc = "start"
    /\ f_wire = <<>>
    /\ f_mod = NoMod
    /\ f_out = NoOut

\* send_message_raw(payload): the frame is written to the transport
FrameSend ==
    /\ f_pc = "start"
    /\ f_wire' = f_wire \o send_message_raw(f_payload)
    /\ f_pc' = "sent"
    /\ UNCHANGED <<f_payload, f_mod, f_out>>
    /\ UNCHANGED beside_frame

\* the line replaces one byte of the frame by a different one
FrameCorrupt ==
    /\ f_pc = "sent"
    /\ f_mod = NoMod
    /\ \E pos \in 1..Len(f_wire), b \in TransitBytes :
          /\ f_wire[pos] # b
          /\ f_wire' = [f_wire EXCEPT ![pos] = b]
          /\ f_mod' = [pos |-> pos, byte |-> b]
    /\ UNCHANGED <<f_pc, f_payload, f_out>>
    /\ UNCHANGED beside_frame

\* receive_message_raw() on what the transport holds
FrameReceive ==
    /\ f_pc = "sent"
    /\ \E out \in {receive_message_raw(f_wire)} :
          /\ f_out' = out
          /\ f_wire' = out.rest
    /\ f_pc' = "received"
    /\ UNCHANGED <<f_payload, f_mod>>
    /\ UNCHANGED beside_frame

FrameNext == FrameSend \/ FrameCorrupt \/ FrameReceive

(***************************************************************************)
(* Command engine.                                                         *)
(***************************************************************************)
NoCmd == [op |-> "none", message |-> [id |-> "none", mac |-> <<>>, arg |-> <<>>], n0 |-> 0]
NoResult == Err("none")

EngineStart ==
    /\ self_retries = DEFAULT_RETRIES
    /\ pc = "idle"
    /\ cmd = NoCmd
    /\ retries = 0
    /\ sent = <<>>
    /\ nreads = 0
    /\ ntimeouts = 0
    /\ ndiscards = 0
    /\ rx_last = "none"
    /\ got = <<>>
    /\ werr = FALSE
    /\ result = NoResult

\* Protocol::set_retries(retries)
SetRetries ==
    /\ pc = "idle"
    /\ \E n \in 0..MaxRetries : self_retries' = n
    /\ UNCHANGED <<build_checks, pc, cmd, retries, sent, nreads, ntimeouts,
                   ndiscards, rx_last, got, werr, result>>
    /\ UNCHANGED beside_engine

\* a borrow_mut that is granted while an operation of the engine runs
borrow_mut_shared(p) == p \in {"idle", "send", "await"}

\* protocol.borrow_mut() of a Plugwise or Circle method: the RefCell of the
\* engine all handles share is free, no operation of the engine is running
borrow_mut(p) == p = "idle"

\* a budget of retries that all exchanges share: an exchange goes on with
\* what the one before left
initial_retries_left(configured, left) == left

\* `let mut retries = self.retries;` at the top of send_and_expect and of
\* send_and_expect_ack
initial_retries(configured, left) == configured

\* an exchange starts: the request message of a public operation is built
\* and send_and_expect or send_and_expect_ack starts
StartExchange ==
    /\ borrow_mut(pc)
    /\ \E op \in OpNames, mac \in Macs :
         \E arg \in Args(op) :
            cmd' = [op |-> op,
                    message |-> [id |-> Ops[op].req,
                                 mac |-> IF op = "initialize" THEN <<>> ELSE mac,
                                 arg |-> arg],
                    n0 |-> self_retries]
    /\ retries' = initial_retries(self_retries, retries)
    /\ pc' = "send"
    /\ sent' = <<>>
    /\ nreads' = 0
    /\ ntimeouts' = 0
    /\ ndiscards' = 0
    /\ rx_last' = "none"
    /\ got' = <<>>
    /\ werr' = FALSE
    /\ result' = NoResult
    /\ UNCHANGED <<build_checks, self_retries>>

\* a public operation is called
Call ==
    /\ StartExchange
    /\ UNCHANGED beside_engine

\* a public operation is called after another one returned, as get_clock
\* and get_power_buffer do inside one call of the facade
NextExchange ==
    /\ cmd.op # "none"
    /\ StartExchange
    /\ spent' = ntimeouts
    /\ UNCHANGED <<frame_vars, codec_vars, sim_vars, api_vars, power_vars, clk_vars>>

\* the ways the four writes of send_message_raw can go: all succeed (at = 0),
\* or the write number `at` fails with an I/O error
WriteOutcomes ==
    {[at |-> 0, err |-> "none"]}
    \cup {[at |-> k, err |-> e] : k \in 1..4, e \in {ErrIoTimedOut, ErrIoOther}}

\* written_before of a send that leaves out the write of the footer
written_before_no_footer(payload, at) ==
    SubSeq(send_message_raw(payload), 1,
           CASE at = 0 -> Len(HEADER) + Len(payload) + CRC_SIZE
             [] at = 1 -> 0
             [] at = 2 -> Len(HEADER)
             [] at = 3 -> Len(HEADER) + Len(payload)
             [] at = 4 -> Len(HEADER) + Len(payload) + CRC_SIZE)

\* the bytes of the frame of `payload` that reached the transport when the
\* write number `at` failed: the header, the payload, the CRC and the footer
\* are written one after the other
written_before(payload, at) ==
    SubSeq(send_message_raw(payload), 1,
           CASE at = 0 -> Len(HEADER) + Len(payload) + CRC_SIZE + Len(FOOTER)
             [] at = 1 -> 0
             [] at = 2 -> Len(HEADER)
             [] at = 3 -> Len(HEADER) + Len(payload)
             [] at = 4 -> Len(HEADER) + Len(payload) + CRC_SIZE)

\* an error of the send handled as the error arm handles one of the await
on_write_error_as_read(e, left) == on_error(e, left)

\* `try!(self.send_message(&message))`: an error of the send leaves
\* send_and_expect(_ack) at once, whatever it is and whatever retries are left
on_write_error(e, left) == "return"

\* send_message(&message) at the top of the loop of send_and_expect(_ack)
Send ==
    /\ pc = "send"
    /\ \E payload \in {to_payload(cmd.message, build_checks)} :
          IF ~payload.ok
          THEN /\ pc' = IF payload.err = ErrPanic THEN "panicked" ELSE "idle"
               /\ result' = payload
               /\ UNCHANGED <<sent, werr>>
          ELSE \E w \in WriteOutcomes :
                 /\ sent' = Append(sent, written_before(payload.val, w.at))
                 /\ werr' = (w.at # 0)
                 /\ pc' = IF w.at = 0 THEN "await"
                          ELSE IF on_write_error(w.err, retries) = "return" THEN "idle"
                          ELSE "send"
                 /\ result' = IF w.at = 0 \/ on_write_error(w.err, retries) # "return"
                              THEN result ELSE Err(w.err)
    /\ UNCHANGED <<build_checks, self_retries, cmd, retries, nreads, ntimeouts,
                   ndiscards, rx_last, got>>
    /\ UNCHANGED beside_engine

Continue == [kind |-> "continue", err |-> "none", msg |-> <<>>]

\* an await loop that takes a response only from the Circle the request of
\* the command c went to
await_decoded_same_mac(d, c) ==
    IF d.kind = "noise" THEN Continue
    ELSE IF d.kind = "err" THEN d
    ELSE IF ~expect_message(d.msg, Ops[c.op].res) THEN Continue
    ELSE IF c.message.mac # <<>> /\ d.msg.header.mac # c.message.mac THEN Continue
    ELSE [kind |-> "ok", err |-> "none", msg |-> d.msg]

\* what a line that was read and decoded leads to in the await loop of the
\* command c: the loop goes on ("continue"), returns the message ("ok") or
\* leaves with an error ("err")
await_decoded(d, c) ==
    IF d.kind = "noise" THEN Continue
    ELSE IF d.kind = "err" THEN d
    ELSE IF ~expect_message(d.msg, Ops[c.op].res) THEN Continue
    ELSE IF Ops[c.op].ack /\ ~wait_for_mac_ack(d.msg, c.message.mac)
    THEN Continue
    ELSE [kind |-> "ok", err |-> "none", msg |-> d.msg]

\* what one read of the await loop leads to, for a read that failed or
\* returned a line of the catalogue
await_step(ev, c, checks) ==
    IF ev \in ReadErrors THEN [kind |-> "err", err |-> ev, msg |-> <<>>]
    ELSE The({await_decoded(d, c) : d \in {Decoded[checks][ev]}})

\* what send_and_expect(_ack) and the operation do with the outcome of one
\* read: the loop goes on, the operation returns, or the request is sent again
AwaitOutcome(step) ==
    CASE step.kind = "continue" ->
              UNCHANGED <<pc, retries, got, result>>
      [] step.kind = "ok" ->
              /\ got' = <<step.msg>>
              /\ result' = typed_response(cmd.op, step.msg)
              /\ pc' = "idle"
              /\ UNCHANGED retries
      [] step.kind = "err" /\ step.err = ErrPanic ->
              /\ pc' = "panicked"
              /\ result' = Err(ErrPanic)
              /\ UNCHANGED <<retries, got>>
      [] step.kind = "err" /\ step.err # ErrPanic
              /\ on_error(step.err, retries) = "return" ->
              /\ pc' = "idle"
              /\ result' = Err(step.err)
              /\ UNCHANGED <<retries, got>>
      [] OTHER ->
              /\ retries' = retries - 1
              /\ pc' = "send"
              /\ UNCHANGED <<got, result>>

\* one read inside expect_message / wait_for_mac_ack and what
\* send_and_expect(_ack) and the operation do with its outcome
Recv ==
    /\ pc = "await"
    /\ \E ev \in RxNames \cup ReadErrors :
         \E step \in {await_step(ev, cmd, build_checks)} :
            /\ step.kind = "continue" => ndiscards < MaxDiscards
            /\ rx_last' = ev
            /\ nreads' = nreads + 1
            /\ ntimeouts' = IF ev = ErrIoTimedOut THEN ntimeouts + 1 ELSE ntimeouts
            /\ ndiscards' = IF step.kind = "continue" THEN ndiscards + 1 ELSE ndiscards
            /\ AwaitOutcome(step)
    /\ UNCHANGED <<build_checks, self_retries, cmd, sent, werr>>
    /\ UNCHANGED beside_engine

BudgetNext == SetRetries \/ Call \/ NextExchange \/ Send \/ Recv

(***************************************************************************)
(* Codec scenario.                                                         *)
(***************************************************************************)
NoSrc == [kind |-> "none", name |-> "none", message |-> NoCmd.message]
NoEdit == [kind |-> "none", n |-> 0]

CodecStart ==
    /\ c_pc = "start"
    /\ c_payload = <<>>
    /\ c_edit = NoEdit
    /\ c_out = NoResult
    /\ c_re = NoResult

\* the well-formed response payloads of the catalogue, one or more for each
\* variant from_payload decodes
CodecResponses ==
    {"ack1", "ack_nomac", "ack1_status", "res_init", "res_info1", "res_info2",
     "res_info_low", "res_calib", "res_pbuf", "res_puse", "res_clock"}

\* log indexes below 2^20: the ends of the range, the last index of the
\* simulator, and indexes around the carries of index * 32 + ADDR_OFFS
LogIndexes == {0, 5, 540, 1535, 1536, 2047, 2048, 65535, 65536, 1048575}

\* the arguments of the requests that are encoded
CodecArgs(op) ==
    IF op = "get_power_buffer" THEN {nibbles_of[i, 8] : i \in LogIndexes} ELSE Args(op)

\* the payloads that are decoded: responses of the catalogue and the requests
\* the operations send
CodecSources ==
    {[kind |-> "response", name |-> n, message |-> NoCmd.message] : n \in CodecResponses}
    \cup {[kind |-> "response", name |-> "res_pbuf",
           message |-> [NoCmd.message EXCEPT !.arg = nibbles_of[i, 8]]] : i \in LogIndexes}
    \cup UNION {{[kind |-> "request", name |-> op,
                  message |-> [id |-> Ops[op].req,
                               mac |-> IF op = "initialize" THEN <<>> ELSE Mac1,
                               arg |-> arg]] : arg \in CodecArgs(op)} : op \in OpNames}

\* byte values appended to a payload: hex digits, CR, a non-hex letter
ExtraBytes == {48, 70, 13, 88}

\* the payload of a response of the catalogue; a PowerBuffer response that
\* is given a log index carries the flash address of that index in its last
\* 8 characters
response_payload(src) ==
    IF src.message.arg = <<>> THEN RxPayload[src.name]
    ELSE SubSeq(RxPayload[src.name], 1, Len(RxPayload[src.name]) - 8)
         \o format_hex[pos2addr(src.message.arg, FALSE).val]

\* a response of the stick is taken as it is
CodecTake ==
    /\ c_pc = "start"
    /\ c_src.kind = "response"
    /\ c_payload' = response_payload(c_src)
    /\ c_pc' = "ready"
    /\ UNCHANGED <<c_src, c_edit, c_out, c_re>>
    /\ UNCHANGED <<engine_vars, frame_vars, sim_vars, api_vars, power_vars, clk_vars, hist_vars>>

\* Message::to_payload() of a request
CodecEncode ==
    /\ c_pc = "start"
    /\ c_src.kind = "request"
    /\ \E payload \in {to_payload(c_src.message, build_checks)} :
          /\ c_payload' = IF payload.ok THEN payload.val ELSE <<>>
          /\ c_pc' = IF payload.ok THEN "ready" ELSE "panicked"
          /\ c_out' = IF payload.ok THEN c_out ELSE payload
    /\ UNCHANGED <<c_src, c_edit, c_re>>
    /\ UNCHANGED <<engine_vars, frame_vars, sim_vars, api_vars, power_vars, clk_vars, hist_vars>>

\* the simulator answers a PowerBuffer request with its PowerBuffer
\* response for the mac of the request: the four entries and the log address
\* 00044000 are constants, whatever address the request carries
CodecEcho ==
    /\ c_pc = "ready"
    /\ c_edit = NoEdit
    /\ c_src.kind = "request"
    /\ c_src.name = "get_power_buffer"
    /\ c_payload' = wire_payload(RES_POWER_BUFFER, c_src.message.mac \o PowerBufferBody)
    /\ c_edit' = [kind |-> "echo", n |-> 0]
    /\ UNCHANGED <<c_pc, c_src, c_out, c_re>>
    /\ UNCHANGED <<engine_vars, frame_vars, sim_vars, api_vars, power_vars, clk_vars, hist_vars>>

\* one byte more follows the payload
CodecExtend ==
    /\ c_pc = "ready"
    /\ c_edit = NoEdit
    /\ \E b \in ExtraBytes : c_payload' = Append(c_payload, b)
    /\ c_edit' = [kind |-> "extend", n |-> 1]
    /\ UNCHANGED <<c_pc, c_src, c_out, c_re>>
    /\ UNCHANGED <<engine_vars, frame_vars, sim_vars, api_vars, power_vars, clk_vars, hist_vars>>

\* the payload ends early: its last k bytes are missing
CodecTruncate ==
    /\ c_pc = "ready"
    /\ c_edit = NoEdit
    /\ \E k \in 1..Len(c_payload) :
          /\ c_payload' = SubSeq(c_payload, 1, Len(c_payload) - k)
          /\ c_edit' = [kind |-> "truncate", n |-> k]
    /\ UNCHANGED <<c_pc, c_src, c_out, c_re>>
    /\ UNCHANGED <<engine_vars, frame_vars, sim_vars, api_vars, power_vars, clk_vars, hist_vars>>

\* Message::from_payload(payload)
CodecDecode ==
    /\ c_pc = "ready"
    /\ \E out \in {from_payload(c_payload, build_checks)} :
          /\ c_out' = out
          /\ c_pc' = IF ~out.ok /\ out.err = ErrPanic THEN "panicked" ELSE "decoded"
    /\ UNCHANGED <<c_src, c_payload, c_edit, c_re>>
    /\ UNCHANGED <<engine_vars, frame_vars, sim_vars, api_vars, power_vars, clk_vars, hist_vars>>

\* the decoded message as to_payload sees it: its identifier, the mac of its
\* header and its body
as_request(msg) == [id |-> msg.id, mac |-> msg.header.mac, arg |-> msg.body]

\* Message::to_payload() of the message from_payload returned
CodecReencode ==
    /\ c_pc = "decoded"
    /\ c_out.ok
    /\ c_re' = to_payload(as_request(c_out.val), build_checks)
    /\ c_pc' = "reencoded"
    /\ UNCHANGED <<c_src, c_payload, c_edit, c_out>>
    /\ UNCHANGED <<engine_vars, frame_vars, sim_vars, api_vars, power_vars, clk_vars, hist_vars>>

CodecNext ==
    CodecTake \/ CodecEncode \/ CodecEcho \/ CodecExtend \/ CodecTruncate
    \/ CodecDecode \/ CodecReencode

(***************************************************************************)
(* Simulator scenario.                                                     *)
(***************************************************************************)
SimStart ==
    /\ reader = [buf |-> <<>>, port |-> Stub_new]
    /\ last_switch = [m \in Macs |-> "never"]

\* send_message(&message) with the Stub as the transport: the header, the
\* payload, the CRC and the footer are written to it one after the other
SimSend ==
    /\ pc = "send"
    /\ \E payload \in {to_payload(cmd.message, build_checks)} :
          IF ~payload.ok
          THEN /\ pc' = IF payload.err = ErrPanic THEN "panicked" ELSE "idle"
               /\ result' = payload
               /\ UNCHANGED <<sent, werr, reader>>
          ELSE \E w \in {write_parts(reader.port,
                                     <<HEADER, payload.val,
                                       format_hex[nibbles_of[crc16_xmodem(payload.val), 4]],
                                       FOOTER>>, 1)} :
                 /\ sent' = Append(sent, written_before(payload.val, w.at))
                 /\ werr' = (w.at # 0)
                 /\ reader' = [reader EXCEPT !.port = w.stub]
                 /\ pc' = IF w.at = 0 THEN "await"
                          ELSE IF w.res.err = ErrPanic THEN "panicked" ELSE "idle"
                 /\ result' = IF w.at = 0 THEN result ELSE w.res
    /\ UNCHANGED <<build_checks, self_retries, cmd, retries, nreads, ntimeouts,
                   ndiscards, rx_last, got, last_switch>>
    /\ UNCHANGED <<frame_vars, codec_vars, api_vars, power_vars, clk_vars, hist_vars>>

\* one read inside expect_message / wait_for_mac_ack with the Stub as the
\* transport, and what send_and_expect(_ack) and the operation do with it
SimRecv ==
    /\ pc = "await"
    /\ \E r \in {reader_read_until(reader, <<>>)} :
         \E step \in {IF ~r.res.ok
                      THEN [kind |-> "err", err |-> r.res.err, msg |-> <<>>]
                      ELSE await_decoded(receive_and_decode(r.res.val, build_checks),
                                         cmd)} :
            /\ step.kind = "continue" => ndiscards < MaxDiscards
            /\ reader' = r.reader
            /\ rx_last' = IF r.res.ok THEN "stub" ELSE r.res.err
            /\ nreads' = nreads + 1
            /\ ntimeouts' = IF ~r.res.ok /\ r.res.err = ErrIoTimedOut
                            THEN ntimeouts + 1 ELSE ntimeouts
            /\ ndiscards' = IF step.kind = "continue" THEN ndiscards + 1 ELSE ndiscards
            /\ AwaitOutcome(step)
            /\ last_switch' = IF step.kind = "ok" /\ cmd.op = "switch"
                              THEN [last_switch EXCEPT
                                      ![cmd.message.mac] =
                                          IF cmd.message.arg THEN "on" ELSE "off"]
                              ELSE last_switch
    /\ UNCHANGED <<build_checks, self_retries, cmd, sent, werr>>
    /\ UNCHANGED <<frame_vars, codec_vars, api_vars, power_vars, clk_vars, hist_vars>>

MaxWrites == 2

\* payloads of frames written to the Stub as they are: with identifiers the
\* Stub does not support (Ack, the Initialize and Info responses) followed by
\* a mac, by 12 characters that make 16 with the CRC, by 4 characters, or by
\* 16 characters that are no hexadecimal digits; and an Info and a Switch
\* request
RawPayloads ==
    {format_hex[nibbles_of[ACK, 4] \o Mac1],
     format_hex[nibbles_of[RES_INITIALIZE, 4] \o Mac2],
     format_hex[nibbles_of[RES_INFO, 4] \o nibbles_of[0, 12]],
     format_hex[nibbles_of[ACK, 4] \o nibbles_of[193, 4]],
     format_hex[nibbles_of[RES_INITIALIZE, 4]] \o [i \in 1..16 |-> 71],
     format_hex[nibbles_of[REQ_INFO, 4] \o Mac1],
     format_hex[nibbles_of[REQ_SWITCH, 4] \o Mac2 \o nibbles_of[1, 2]]}

\* write(frame) on the Stub by a user of the simulator other than the
\* engine: the frame of a payload goes to the Stub in one write
SimWrite ==
    /\ pc \in {"idle", "written"}
    /\ pc = "written" => Len(sent) < MaxWrites
    /\ \E payload \in RawPayloads :
         \E w \in {Stub_write(reader.port, send_message_raw(payload))} :
            /\ cmd' = [op |-> "write",
                       message |-> [id |-> SubSeq(payload, 1, 4), mac |-> <<>>,
                                    arg |-> payload],
                       n0 |-> 0]
            /\ sent' = Append(IF pc = "idle" THEN <<>> ELSE sent,
                              send_message_raw(payload))
            /\ result' = w.res
            /\ werr' = ~w.res.ok
            /\ reader' = [reader EXCEPT !.port = w.stub]
            /\ pc' = IF ~w.res.ok /\ w.res.err = ErrPanic THEN "panicked" ELSE "written"
    /\ retries' = 0
    /\ nreads' = 0
    /\ ntimeouts' = 0
    /\ ndiscards' = 0
    /\ rx_last' = "none"
    /\ got' = <<>>
    /\ UNCHANGED <<build_checks, self_retries, last_switch>>
    /\ UNCHANGED <<frame_vars, codec_vars, api_vars, power_vars, clk_vars, hist_vars>>

SimNext == Call \/ SimSend \/ SimRecv

\* the simulator used by the engine and then written to as it is
StubNext == Call \/ SimSend \/ SimRecv \/ SimWrite

(***************************************************************************)
(* Device facade (src/src/lib.rs).                                         *)
(***************************************************************************)
MaxLastLog == 1
MaxEntries == 4
MaxCircles == 1

\* errors a call of the engine returns: the retries are used up, or the
\* response does not decode
EngineErrors == {ErrIoTimedOut, ErrProtocol}

\* blocks of four (DateTime, pulses) entries a PowerBuffer response holds:
\* the block of the simulator; four later hours; an hour of the first block
\* twice, an unused entry and a 46th day; the 31st day of months of 31 and of
\* 28 days, a month 0 and no pulses
PBufBlocks ==
    {<<<<13, 9, 19740, 123>>, <<13, 9, 19800, 118>>, <<13, 9, 19860, 113>>, <<13, 9, 19920, 49>>>>,
     <<<<13, 9, 20160, 4>>, <<13, 9, 20100, 3>>, <<13, 9, 20040, 2>>, <<13, 9, 19980, 1>>>>,
     <<<<13, 9, 19740, 7>>, <<13, 9, 19740, 8>>, <<255, 255, 65535, 65535>>, <<13, 9, 65535, 5>>>>,
     <<<<13, 8, 44580, 9>>, <<13, 0, 0, 6>>, <<13, 12, 100, 0>>, <<13, 2, 43200, 10>>>>}

\* the body of a PowerBuffer response with these blocks, at log address
\* ADDR_OFFS
pbuf_body(blocks) ==
    LET entry(e) == nibbles_of[e[1], 2] \o nibbles_of[e[2], 2] \o nibbles_of[e[3], 4]
                    \o nibbles_of[0, 4] \o nibbles_of[e[4], 4]
    IN entry(blocks[1]) \o entry(blocks[2]) \o entry(blocks[3]) \o entry(blocks[4])
       \o SubSeq(PowerBufferBody, 65, 72)

\* the body of an Info response with last log position k and this relay state
info_body_at(dt, k, relay) ==
    nibbles_of[dt[1], 2] \o nibbles_of[dt[2], 2] \o nibbles_of[dt[3], 4]
    \o pos2addr(nibbles_of[0, 4] \o nibbles_of[k, 4], FALSE).val
    \o nibbles_of[relay, 2] \o SubSeq(InfoBodyOff, 19, 42)

info_body(k, relay) ==
    SubSeq(InfoBodyOff, 1, 8) \o pos2addr(nibbles_of[0, 4] \o nibbles_of[k, 4], FALSE).val
    \o nibbles_of[relay, 2] \o SubSeq(InfoBodyOff, 19, 42)

\* the payloads the stick may answer a call of the engine with: those of the
\* simulator, which answers Calibration with zeros for every mac and Info
\* with the log address of index 540 and the relay as it was switched, and
\* beside them an offline stick, a calibration with gain_a = 1.0, Info with
\* the last log positions 0..MaxLastLog, later and irregular PowerBuffer
\* blocks, and other pulses and clocks
FacadeReplies(op, mac) ==
    CASE op = "initialize" ->
           {wire_payload(RES_INITIALIZE, nibbles_of[0, 16] \o InitBody),
            wire_payload(RES_INITIALIZE, nibbles_of[0, 16] \o [InitBody EXCEPT ![4] = 0])}
      [] op = "calibrate" ->
           {wire_payload(RES_CALIBRATION, mac \o CalibBody)}
           \cup IF mac = Mac1 THEN {}
                ELSE {wire_payload(RES_CALIBRATION,
                                   mac \o [CalibBody EXCEPT ![1] = 3, ![2] = 15, ![3] = 8])}
      [] op = "get_info" ->
           {wire_payload(RES_INFO, mac \o InfoBodyOff),
            wire_payload(RES_INFO, mac \o InfoBodyOn)}
           \cup {wire_payload(RES_INFO, mac \o info_body(k, k % 2)) : k \in 0..MaxLastLog}
      [] op = "get_power_buffer" ->
           {wire_payload(RES_POWER_BUFFER, mac \o pbuf_body(blocks)) : blocks \in PBufBlocks}
      [] op = "get_power_usage" ->
           {wire_payload(RES_POWER_USE, mac \o PowerUseBody),
            wire_payload(RES_POWER_USE, mac \o [PowerUseBody EXCEPT ![8] = 5])}
      [] op = "get_clock_info" ->
           {wire_payload(RES_CLOCK_INFO, mac \o ClockInfoBody),
            wire_payload(RES_CLOCK_INFO, mac \o [ClockInfoBody EXCEPT ![8] = 7])}
      [] OTHER -> {wire_payload(ACK, nibbles_of[0, 4] \o mac)}

\* DateTimes of the Info response get_clock reads, beside the one of the
\* simulator: a 13th month, a 32nd day, a month 0, a 31st of February and a
\* last minute of a year
ClockDates == {<<13, 13, 0>>, <<13, 1, 44640>>, <<13, 0, 600>>, <<13, 2, 43200>>,
               <<13, 12, 44639>>}

\* what the operation of the engine returns when the response it awaits
\* arrives with this payload
engine_reply(op, payload, checks) ==
    The({IF ~m.ok THEN m ELSE typed_response(op, m.val)
         : m \in {from_payload(payload, checks)}})

\* what one call of an operation of the engine may return, for each
\* operation, mac and kind of build
ExchangeTable ==
    [op \in OpNames, mac \in Macs \cup {<<>>}, checks \in BOOLEAN |->
        {Err(e) : e \in EngineErrors}
        \cup {engine_reply(op, payload, checks) : payload \in FacadeReplies(op, mac)}]

Exchange(op, mac, checks) == ExchangeTable[op, mac, checks]

\* what get_info may return to get_clock beside that
ClockInfoTable ==
    [mac \in Macs, checks \in BOOLEAN |->
        {engine_reply("get_info", wire_payload(RES_INFO, mac \o info_body_at(dt, 0, 0)),
                      checks) : dt \in ClockDates}]

NoCall == [op |-> "none", handle |-> 0, arg |-> <<>>]

\* the record of one call of the engine: the operation, its arguments and
\* what it returned
exchange_made(op, mac, arg, outcome) ==
    [op |-> op, mac |-> mac, arg |-> arg, outcome |-> outcome]

ApiStart ==
    /\ stick = "none"
    /\ circles = <<>>
    /\ api_pc = "idle"
    /\ api_call = NoCall
    /\ api_log = <<>>
    /\ api_info = <<>>
    /\ api_index = 0
    /\ api_map = <<>>
    /\ api_read = <<>>
    /\ api_result = NoResult

beside_api == <<engine_vars, frame_vars, codec_vars, sim_vars, power_vars, clk_vars, hist_vars>>
beside_power == <<engine_vars, frame_vars, codec_vars, sim_vars, api_vars, clk_vars, hist_vars>>
beside_clk == <<engine_vars, frame_vars, codec_vars, sim_vars, api_vars, power_vars, hist_vars>>

\* the locals of get_power_buffer are gone when another operation is called
NoBufferLocals ==
    /\ api_info' = <<>>
    /\ api_index' = 0
    /\ api_map' = <<>>
    /\ api_read' = <<>>

\* the devices plugwise is called with: the simulator, a serial port with
\* the settings of Device::Serial, a serial port with a number of retries
Devices ==
    {[kind |-> "simulator", retries |-> DEFAULT_RETRIES],
     [kind |-> "serial", retries |-> 3]}
    \cup {[kind |-> "serial_ext", retries |-> n] : n \in 0..MaxRetries}

\* the retries of the engine when plugwise(device) returns: plugwise_device
\* calls set_retries after initialize returned Ok, plugwise_simulator leaves
\* the engine as Protocol::new made it
retries_after_connect(device, r, before) ==
    IF r.ok /\ device.kind # "simulator" THEN device.retries ELSE before

\* what plugwise(device) has of its port before PlugwiseInner::initialize:
\* plugwise_simulator builds a Stub; plugwise_device opens and configures the
\* serial port and returns with the error of serial::open or of configure
\* (try!), such as a port that does not exist or settings the port refuses
PortOutcomes(device) ==
    IF device.kind = "simulator" THEN {Ok("stub")}
    ELSE {Ok("port"), Err(ErrIoNotFound), Err(ErrIoInvalidInput)}

\* plugwise(device): the port, then PlugwiseInner::initialize, which runs
\* with the retries of Protocol::new, then set_retries for a serial port; a
\* serial port that fails to open or to configure ends the call before an
\* engine is built
Connect ==
    /\ stick = "none"
    /\ \E device \in Devices :
         \E port \in PortOutcomes(device) :
            /\ api_call' = [op |-> "connect", handle |-> 0, arg |-> <<port>>]
            /\ IF ~port.ok
               THEN /\ api_log' = <<>>
                    /\ api_result' = port
                    /\ stick' = "failed"
                    /\ UNCHANGED self_retries
               ELSE \E outcome \in Exchange("initialize", <<>>, build_checks) :
                       \E r \in {PlugwiseInner_initialize(outcome)} :
                          /\ api_log' = <<exchange_made("initialize", <<>>, 0, outcome)>>
                          /\ api_result' = r
                          /\ stick' = IF r.ok THEN "online" ELSE "failed"
                          /\ self_retries' = retries_after_connect(device, r, self_retries)
    /\ NoBufferLocals
    /\ UNCHANGED <<circles, api_pc>>
    /\ UNCHANGED <<build_checks, pc, cmd, retries, sent, nreads, ntimeouts, ndiscards,
                   rx_last, got, werr, result>>
    /\ UNCHANGED <<frame_vars, codec_vars, sim_vars, power_vars, clk_vars, hist_vars>>

\* Plugwise::create_circle(mac)
CreateCircle ==
    /\ stick = "online"
    /\ api_pc = "idle"
    /\ Len(circles) < MaxCircles
    /\ \E mac \in Macs :
         \E outcome \in Exchange("calibrate", mac, build_checks) :
            \E r \in {create_circle(mac, outcome)} :
               /\ api_call' = [op |-> "create_circle", handle |-> 0, arg |-> mac]
               /\ api_log' = <<exchange_made("calibrate", mac, 0, outcome)>>
               /\ api_result' = r
               /\ circles' = IF r.ok THEN Append(circles, r.val) ELSE circles
    /\ NoBufferLocals
    /\ UNCHANGED <<stick, api_pc>>
    /\ UNCHANGED beside_api

\* Circle::switch_on, switch_off, is_switched_on and get_actual_watt_usage
\* on a handle
CircleCall ==
    /\ api_pc = "idle"
    /\ \E h \in 1..Len(circles), op \in DOMAIN circle_exchange :
         \E outcome \in Exchange(circle_exchange[op], circles[h].mac, build_checks) :
            /\ api_call' = [op |-> op, handle |-> h, arg |-> <<>>]
            /\ api_log' = <<exchange_made(circle_exchange[op], circles[h].mac,
                                          IF op = "switch_on" THEN 1 ELSE 0, outcome)>>
            /\ api_result' = circle_return(op, circles[h], outcome)
    /\ NoBufferLocals
    /\ UNCHANGED <<stick, circles, api_pc>>
    /\ UNCHANGED beside_api

\* the times set_clock is called with: 11:36:58 UTC on the seven days from
\* Sunday 26 April 2015; the zone of the process is not looked at for them
ClockTms ==
    {[at_utc((days_from_civil(2015, 4, 26) + d) * 1440 + 696) EXCEPT !.tm_sec = 58]
       : d \in 0..6}

\* Circle::set_clock(tm) on a handle
SetClock ==
    /\ api_pc = "idle"
    /\ \E h \in 1..Len(circles), tm \in ClockTms :
         \E req \in {ReqClockSet_new_from_tm(tm, 0)} :
            /\ api_call' = [op |-> "set_clock", handle |-> h, arg |-> <<tm>>]
            /\ IF ~req.ok
               THEN /\ api_log' = <<>>
                    /\ api_result' = req
                    /\ api_pc' = "panicked"
               ELSE \E outcome \in Exchange("set_clock", circles[h].mac, build_checks) :
                       /\ api_log' = <<exchange_made("set_clock", circles[h].mac,
                                                     req.val, outcome)>>
                       /\ api_result' = outcome
                       /\ api_pc' = "idle"
    /\ NoBufferLocals
    /\ UNCHANGED <<stick, circles>>
    /\ UNCHANGED beside_api

\* Circle::get_clock on a handle
GetClock ==
    /\ api_pc = "idle"
    /\ \E h \in 1..Len(circles) :
         \E info \in Exchange("get_info", circles[h].mac, build_checks)
                     \cup ClockInfoTable[circles[h].mac, build_checks] :
         \E clock \in IF info.ok
                      THEN Exchange("get_clock_info", circles[h].mac, build_checks)
                      ELSE {info} :
            \E r \in {get_clock_return(info, clock, build_checks)} :
               /\ api_call' = [op |-> "get_clock", handle |-> h, arg |-> <<>>]
               /\ api_log' = <<exchange_made("get_info", circles[h].mac, 0, info)>>
                             \o IF info.ok
                                THEN <<exchange_made("get_clock_info", circles[h].mac, 0, clock)>>
                                ELSE <<>>
               /\ api_result' = r
               /\ api_pc' = IF r = Err(ErrPanic) THEN "panicked" ELSE "idle"
    /\ NoBufferLocals
    /\ UNCHANGED <<stick, circles>>
    /\ UNCHANGED beside_api

\* Circle::get_power_buffer(max_entries) on a handle, to the head of its
\* loop, with max_entries None, Some(0), or the last two numbers up to
\* MaxEntries, one on each side of a multiple of 4; calls whose loop reads
\* more than MaxLastLog + 1 blocks are left out
GetPowerBuffer ==
    /\ api_pc = "idle"
    /\ \E h \in 1..Len(circles), max_entries \in {<<>>} \cup {<<n>> : n \in {0, MaxEntries - 1, MaxEntries}} :
         \E info \in Exchange("get_info", circles[h].mac, build_checks) :
            /\ info.ok => info.val.last_logaddr
                             - power_buffer_start(max_entries, info.val.last_logaddr)
                          <= MaxLastLog
            /\ api_call' = [op |-> "get_power_buffer", handle |-> h, arg |-> max_entries]
            /\ api_log' = <<exchange_made("get_info", circles[h].mac, 0, info)>>
            /\ IF info.ok
               THEN /\ api_info' = <<info.val>>
                    /\ api_index' = power_buffer_start(max_entries, info.val.last_logaddr)
                    /\ api_pc' = "buffer"
                    /\ api_result' = NoResult
               ELSE /\ api_info' = <<>>
                    /\ api_index' = 0
                    /\ api_pc' = "idle"
                    /\ api_result' = info
    /\ api_map' = <<>>
    /\ api_read' = <<>>
    /\ UNCHANGED <<stick, circles>>
    /\ UNCHANGED beside_api

\* what one turn of the loop of get_power_buffer does once its call of the
\* engine returned outcome
PowerBufferOutcome(circle, outcome) ==
    IF ~outcome.ok
    THEN /\ api_result' = outcome
         /\ api_pc' = "idle"
         /\ UNCHANGED <<api_index, api_map, api_read>>
    ELSE \E m \in {helper_calls(api_map, buffer_pairs(outcome.val),
                                circle.calibration_data, build_checks)} :
            IF m = <<>>
            THEN /\ api_result' = Err(ErrPanic)
                 /\ api_pc' = "panicked"
                 /\ UNCHANGED <<api_index, api_map, api_read>>
            ELSE /\ api_map' = m[1]
                 /\ api_read' = api_read \o buffer_pairs(outcome.val)
                 /\ IF api_index = api_info[1].last_logaddr
                    THEN /\ api_result' = Ok(m[1])
                         /\ api_pc' = "idle"
                         /\ UNCHANGED api_index
                    ELSE /\ api_index' = api_index + 1
                         /\ UNCHANGED <<api_pc, api_result>>

\* one turn of the loop of get_power_buffer, and its return after the last
PowerBufferStep ==
    /\ api_pc = "buffer"
    /\ \E outcome \in Exchange("get_power_buffer", circles[api_call.handle].mac, build_checks) :
         /\ api_log' = Append(api_log, exchange_made("get_power_buffer",
                                                     circles[api_call.handle].mac,
                                                     api_index, outcome))
         /\ PowerBufferOutcome(circles[api_call.handle], outcome)
    /\ UNCHANGED <<stick, circles, api_call, api_info>>
    /\ UNCHANGED beside_api

LibNext == Connect \/ CreateCircle \/ CircleCall \/ SetClock \/ GetClock \/ GetPowerBuffer
           \/ PowerBufferStep

(***************************************************************************)
(* Power arithmetic (src/src/protocol/messages/mod.rs 20-60).              *)
(***************************************************************************)
\* calibrations of a Circle: the one of the simulator (all 0.0), gain_a = 1.0
\* alone, and gain_a = 0.995, gain_b = -4.882e-6, off_total = 0.027,
\* off_noise = -0.112
PowerCalibrations ==
    {engine_reply("calibrate", wire_payload(RES_CALIBRATION, Mac1 \o body), FALSE).val
       : body \in {CalibBody,
                   [CalibBody EXCEPT ![1] = 3, ![2] = 15, ![3] = 8],
                   <<3, 15, 7, 14, 11, 8, 5, 2, 11, 6, 10, 3, 13, 0, 2, 15,
                     3, 12, 13, 13, 2, 15, 1, 11, 11, 13, 14, 5, 10, 1, 12, 11>>}}

\* pulse counts of a PowerUse response for the windows of 1 s, 8 s and an
\* hour: none, small ones, ones of an idle and of a loaded Circle, and 0xffff
PowerCounts == {<<0, 0, 0>>, <<16, 9, 36>>, <<75, 75, 35>>, <<65535, 100, 65535>>}

PowerUsages ==
    {engine_reply("get_power_usage",
                  wire_payload(RES_POWER_USE,
                               Mac1 \o nibbles_of[c[1], 4] \o nibbles_of[c[2], 4]
                                    \o nibbles_of[c[3], 8] \o SubSeq(PowerUseBody, 17, 28)),
                  FALSE).val : c \in PowerCounts}

NoPower == [calibration |-> <<>>, usage |-> <<>>, window |-> "none",
            watts |-> <<>>, kwh |-> <<>>, actual |-> <<>>]

PowerStart == power = NoPower

\* Pulses::to_watts on the Pulses of one window of a PowerUse response
ToWatts ==
    /\ power.watts = <<>>
    /\ power' = [power EXCEPT
                   !.watts = <<Pulses_to_watts(power.usage[power.window],
                                               power.calibration)>>]
    /\ UNCHANGED beside_power

\* Pulses::to_kwh on the same Pulses
ToKwh ==
    /\ power.kwh = <<>>
    /\ power' = [power EXCEPT
                   !.kwh = <<Pulses_to_kwh(power.usage[power.window],
                                           power.calibration)>>]
    /\ UNCHANGED beside_power

\* Circle::get_actual_watt_usage once get_power_usage returned the response
GetActualWattUsage ==
    /\ power.actual = <<>>
    /\ power' = [power EXCEPT
                   !.actual = <<Pulses_to_watts(power.usage.pulse_8s,
                                                power.calibration)>>]
    /\ UNCHANGED beside_power

PowerNext == ToWatts \/ ToKwh \/ GetActualWattUsage

(***************************************************************************)
(* Calendar times and the DateTime of the wire                             *)
(* (src/src/protocol/messages/mod.rs 135-185, 391-407).                    *)
(***************************************************************************)
\* the number of days of the month m of the year y
days_in_month(y, m) ==
    IF m = 12 THEN 31 ELSE days_from_civil(y, m + 1, 1) - days_from_civil(y, m, 1)

\* years the calendar times are drawn from: the first year a DateTime can
\* hold, a leap year, a century that is no leap year, the last year a
\* DateTime can hold, and the year after it
CalendarYears == {2000, 2016, 2100, 2255, 2256}

\* times of the day, in minutes, and seconds, a leap second among them
CalendarMinutes == {0, 719, 1439}
CalendarSeconds == {0, 59, 60}

\* Tm values in UTC: the first and the last day of every month of the years
CalendarTms ==
    {[at_utc(days_from_civil(y, m, d) * 1440 + t) EXCEPT !.tm_sec = sec]
       : <<y, m, d>> \in {<<y, m, d>> \in CalendarYears \X (1..12) \X (1..31)
                                : d \in {1, days_in_month(y, m)}},
         t \in CalendarMinutes, sec \in CalendarSeconds}

\* offsets of zones from UTC, in seconds
ZoneOffsets == {7200, -18000, 19800}

\* Tm values of zones other than UTC, as time::at returns them or with a
\* leap second: the half hours around the midnights of UTC and of the zone at
\* the end of February 2016, of December 2015 and of a Saturday
ZoneTms ==
    {[at_zone(days_from_civil(ymd[1], ymd[2], ymd[3]) * 1440 + t, off) EXCEPT !.tm_sec = sec]
       : ymd \in {<<2016, 2, 29>>, <<2015, 12, 31>>, <<2015, 5, 2>>},
         t \in {30, 720, 1410}, off \in ZoneOffsets, sec \in {58, 60}}

\* the zones the process runs in, in seconds east of UTC: UTC and the zones
\* the Tm values come from
ProcessZones == {0} \cup ZoneOffsets

NoClk == [tm |-> <<>>, zone |-> 0, datetime |-> <<>>, back |-> <<>>, request |-> <<>>]

ClkStart == clk = NoClk

\* DateTime::new(tm)
DateTimeNew ==
    /\ clk.tm # <<>>
    /\ clk.datetime = <<>>
    /\ clk' = [clk EXCEPT !.datetime = <<DateTime_new(clk.tm, clk.zone)>>]
    /\ UNCHANGED beside_clk

\* DateTime::to_tm() on the DateTime that DateTime::new returned
DateTimeToTm ==
    /\ clk.datetime # <<>>
    /\ clk.back = <<>>
    /\ clk' = [clk EXCEPT !.back = <<DateTime_to_tm(clk.datetime[1], build_checks)>>]
    /\ UNCHANGED beside_clk

\* ReqClockSet::new_from_tm(tm)
ClockSetNewFromTm ==
    /\ clk.tm # <<>>
    /\ clk.request = <<>>
    /\ clk' = [clk EXCEPT !.request = <<ReqClockSet_new_from_tm(clk.tm, clk.zone)>>]
    /\ UNCHANGED beside_clk

ClkNext == DateTimeNew \/ DateTimeToTm \/ ClockSetNewFromTm

Init ==
    /\ build_checks \in BOOLEAN
    /\ EngineStart
    /\ FrameStart
    /\ f_payload = <<>>
    /\ CodecStart
    /\ c_src = NoSrc
    /\ SimStart
    /\ ApiStart
    /\ PowerStart
    /\ ClkStart
    /\ spent = 0

Next == SetRetries \/ Call \/ Send \/ Recv

\* one more pass of the loops of receive_plugwise_message_raw,
\* expect_message and wait_for_mac_ack after the MaxDiscards passes the
\* counters follow: the line read is skipped or discarded and the loop goes on
RecvOn ==
    /\ pc = "await"
    /\ ndiscards = MaxDiscards
    /\ \E ev \in RxNames :
          /\ await_step(ev, cmd, build_checks).kind = "continue"
          /\ rx_last' = ev
    /\ UNCHANGED <<build_checks, self_retries, pc, cmd, retries, sent, nreads,
                   ntimeouts, ndiscards, got, werr, result>>
    /\ UNCHANGED beside_engine

WaitNext == SetRetries \/ Call \/ Send \/ Recv \/ RecvOn

\* the most bytes one write of the transport takes: 4, or more than any
\* request has
WriteCaps == {4, 64}

\* io::Write::write(buf) on a transport that takes at most cap bytes at a
\* time: the bytes it took; the number of them is what write returns
Write_write(buf, cap) == SubSeq(buf, 1, Min({Len(buf), cap}))

RECURSIVE writes_taken(_, _)
\* what the transport took of the buffers written to it one after the other
writes_taken(parts, cap) ==
    IF parts = <<>> THEN <<>>
    ELSE Write_write(Head(parts), cap) \o writes_taken(Tail(parts), cap)

\* the four writes of send_message_raw(payload) on such a transport, of
\* which write number `at` fails (none for at = 0): what the transport took
taken_before(payload, at, cap) ==
    writes_taken(SubSeq(<<HEADER, payload,
                          format_hex[nibbles_of[crc16_xmodem(payload), 4]], FOOTER>>,
                        1, IF at = 0 THEN 4 ELSE at - 1), cap)

\* send_message(&message) at the top of the loop of send_and_expect(_ack),
\* on a transport whose write may take fewer bytes than it is offered
SendShort ==
    /\ pc = "send"
    /\ \E payload \in {to_payload(cmd.message, build_checks)} :
          IF ~payload.ok
          THEN /\ pc' = IF payload.err = ErrPanic THEN "panicked" ELSE "idle"
               /\ result' = payload
               /\ UNCHANGED <<sent, werr>>
          ELSE \E w \in WriteOutcomes, cap \in WriteCaps :
                 /\ sent' = Append(sent, taken_before(payload.val, w.at, cap))
                 /\ werr' = (w.at # 0)
                 /\ pc' = IF w.at = 0 THEN "await" ELSE "idle"
                 /\ result' = IF w.at = 0 THEN result ELSE Err(w.err)
    /\ UNCHANGED <<build_checks, self_retries, cmd, retries, nreads, ntimeouts,
                   ndiscards, rx_last, got>>
    /\ UNCHANGED beside_engine

ShortNext == Call \/ SendShort \/ Recv

vars == <<engine_vars, frame_vars, codec_vars, sim_vars, api_vars, power_vars, clk_vars, hist_vars>>

Spec == Init /\ [][Next]_vars

ShortSpec == Init /\ [][ShortNext]_vars

\* a command that runs takes its next step: send_message returns, and the
\* blocking read of the transport returns a line, zero bytes or an error
WaitSpec ==
    Init /\ [][WaitNext]_vars /\ WF_vars(Send) /\ WF_vars(Recv \/ RecvOn)

FrameInit ==
    /\ build_checks = TRUE
    /\ EngineStart
    /\ FrameStart
    /\ f_payload \in SeqsUpTo(PayloadBytes, MaxPayloadLen)
    /\ CodecStart
    /\ c_src = NoSrc
    /\ SimStart
    /\ ApiStart
    /\ PowerStart
    /\ ClkStart
    /\ spent = 0

FrameSpec == FrameInit /\ [][FrameNext]_vars

CodecInit ==
    /\ build_checks \in BOOLEAN
    /\ EngineStart
    /\ FrameStart
    /\ f_payload = <<>>
    /\ CodecStart
    /\ c_src \in CodecSources
    /\ SimStart
    /\ ApiStart
    /\ PowerStart
    /\ ClkStart
    /\ spent = 0

CodecSpec == CodecInit /\ [][CodecNext]_vars

SimInit == Init

SimSpec == SimInit /\ [][SimNext]_vars

StubSpec == SimInit /\ [][StubNext]_vars

LibInit == Init

LibSpec == LibInit /\ [][LibNext]_vars

PowerInit ==
    /\ build_checks = TRUE
    /\ EngineStart
    /\ FrameStart
    /\ f_payload = <<>>
    /\ CodecStart
    /\ c_src = NoSrc
    /\ SimStart
    /\ ApiStart
    /\ ClkStart
    /\ spent = 0
    /\ power \in [calibration : PowerCalibrations, usage : PowerUsages,
                  window : {"pulse_1s", "pulse_8s", "pulse_hour"},
                  watts : {<<>>}, kwh : {<<>>}, actual : {<<>>}]

PowerSpec == PowerInit /\ [][PowerNext]_vars

BudgetSpec == Init /\ [][BudgetNext]_vars

ClkInit ==
    /\ build_checks \in BOOLEAN
    /\ EngineStart
    /\ FrameStart
    /\ f_payload = <<>>
    /\ CodecStart
    /\ c_src = NoSrc
    /\ SimStart
    /\ ApiStart
    /\ PowerStart
    /\ spent = 0
    /\ clk \in [tm : CalendarTms \cup ZoneTms, zone : ProcessZones, datetime : {<<>>},
                back : {<<>>}, request : {<<>>}]

ClkSpec == ClkInit /\ [][ClkNext]_vars

(***************************************************************************)
(* Properties of the command engine (Spec).                                *)
(***************************************************************************)
\* the frame of the request of the running command
request_frame == send_message_raw(to_payload(cmd.message, build_checks).val)

\* every send of the running command wrote the whole frame of its request
AllSendsWhole ==
    sent = <<>> \/ \E frame \in {request_frame} : \A i \in 1..Len(sent) : sent[i] = frame

\* the error the last read ended in: its I/O error, the error the frame layer
\* or the codec found in the line, "none" when there is none
last_read_error ==
    IF rx_last \in ReadErrors THEN rx_last
    ELSE IF rx_last \in RxNames /\ Decoded[build_checks][rx_last].kind = "err"
    THEN Decoded[build_checks][rx_last].err
    ELSE "none"

\* the last read returned a line that decodes to a message
last_read_is_message ==
    rx_last \in RxNames /\ Decoded[build_checks][rx_last].kind = "msg"

last_read_message == Decoded[build_checks][rx_last].msg

\* the value of the identifier field of the payload the last read carried
last_read_identifier == nib_value[from_str_radix[SubSeq(RxPayload[rx_last], 1, 4)]]

\* the values of the enumerated identifiers
EnumeratedIds == {MessageIdValue[m] : m \in MessageId}

\* the wait of the running command goes on after the last read: nothing was
\* returned, nothing was sent again and no retry was used for it
WaitGoesOn ==
    /\ pc = "await"
    /\ result = NoResult
    /\ got = <<>>
    /\ retries = cmd.n0 - ntimeouts
    /\ Len(sent) = ntimeouts + 1

\* C1: with the retry count n and every read timing out, switch writes its
\* request frame exactly n + 1 times and then returns the timeout error: while
\* all reads of a switch timed out there are at most n + 1 sends, each the whole
\* frame; the command has returned exactly when n + 1 reads timed out, and it
\* then made n + 1 sends and returned Io(TimedOut).
C1_RetryExhaustion ==
    (cmd.op = "switch" /\ ~werr /\ ntimeouts = nreads) =>
        /\ Len(sent) <= cmd.n0 + 1
        /\ AllSendsWhole
        /\ (pc = "idle" <=> ntimeouts = cmd.n0 + 1)
        /\ (pc = "idle" => Len(sent) = cmd.n0 + 1 /\ result = Err(ErrIoTimedOut))

\* a switch with the default retry count returned after 4 sends and 4 timeouts
C1_Witness ==
    /\ cmd.op = "switch"
    /\ cmd.n0 = DEFAULT_RETRIES
    /\ pc = "idle"
    /\ ntimeouts = nreads
    /\ Len(sent) = DEFAULT_RETRIES + 1
    /\ result = Err(ErrIoTimedOut)

\* C2: for every command with retry count n, when k <= n reads timed out and
\* the awaited response then arrives, the command returns that response after
\* exactly k + 1 sends of the byte-identical whole request frame, and every
\* timeout is followed by a resend before the next read: a read is only made
\* after one send more than there were timeouts.
C2_ResendThenResponse ==
    (cmd.op \in OpNames /\ ~werr) =>
        /\ AllSendsWhole
        /\ (pc = "await" => Len(sent) = ntimeouts + 1 /\ ntimeouts <= cmd.n0)
        /\ (pc = "send" => Len(sent) = ntimeouts /\ ntimeouts <= cmd.n0)
        /\ (got # <<>> =>
              /\ pc = "idle"
              /\ ntimeouts <= cmd.n0
              /\ Len(sent) = ntimeouts + 1
              /\ last_read_is_message
              /\ got[1] = last_read_message
              /\ got[1].id = Ops[cmd.op].res
              /\ result = typed_response(cmd.op, got[1])
              /\ result.ok)

\* get_info returned its response after two timeouts and three sends
C2_Witness ==
    /\ cmd.op = "get_info"
    /\ got # <<>>
    /\ result.ok
    /\ ntimeouts = 2
    /\ Len(sent) = 3

\* C3: while a command awaits its response, an error that is no read timeout
\* (missing footer, CRC mismatch, codec error, I/O error of another kind) makes
\* the command return that error at once, whatever retries remain: after such
\* a read the command has returned the error and no send followed the read.
C3_OtherErrorsReturn ==
    (last_read_error \notin {"none", ErrIoTimedOut, ErrPanic}) =>
        /\ pc = "idle"
        /\ result = Err(last_read_error)
        /\ got = <<>>
        /\ Len(sent) = ntimeouts + 1
        /\ retries = cmd.n0 - ntimeouts

\* a codec error was returned after one timeout, with retries left
C3_Witness ==
    /\ rx_last = "trailing"
    /\ ntimeouts = 1
    /\ retries > 0
    /\ pc = "idle"
    /\ result = Err(ErrIoOther)
    /\ Len(sent) = 2

\* C4: switch and set_clock return success only once an Ack message that
\* carries the mac they addressed was received; an Ack with another mac or
\* with none is discarded: the wait goes on, nothing is sent again and no retry
\* is used.
C4_AckForMac ==
    (cmd.op \in OpNames /\ Ops[cmd.op].ack) =>
        /\ (result.ok =>
              /\ last_read_is_message
              /\ last_read_message.id = "Ack"
              /\ last_read_message.body.mac = <<cmd.message.mac>>
              /\ got = <<last_read_message>>)
        /\ ((/\ last_read_is_message
             /\ last_read_message.id = "Ack"
             /\ last_read_message.body.mac # <<cmd.message.mac>>) => WaitGoesOn)

\* a switch succeeded after an Ack for another mac and an Ack without a mac
\* were discarded
C4_Witness ==
    /\ cmd.op = "switch"
    /\ cmd.message.mac = Mac1
    /\ result.ok
    /\ rx_last = "ack1"
    /\ ndiscards = 2
    /\ nreads = 2 + 1
    /\ Len(sent) = 1

\* C5 as stated: while a command awaits identifier E, every received message
\* whose identifier is an enumerated one, of a request or of a response, and
\* differs from E is discarded without an error, a resend or a used retry.
\* (The messages named here are the well-formed ones of the catalogue: the
\* responses, and the Info and PowerBuffer requests as to_payload writes them.)
C5_AnyOtherIdentifierDiscarded ==
    (/\ cmd.op \in OpNames
     /\ rx_last \in {"ack1", "res_init", "res_info1", "res_calib", "res_pbuf",
                     "res_puse", "res_clock", "req_info", "req_pbuf"}
     /\ last_read_identifier \in EnumeratedIds
     /\ last_read_identifier # MessageIdValue[Ops[cmd.op].res]) => WaitGoesOn

\* What the engine does with the messages of C5: one that from_payload
\* decodes and whose identifier differs from E is discarded without an error,
\* a resend or a used retry; a request is not decoded, the Info request for
\* want of characters of the mac after the counter was read (Io, Other), the
\* PowerBuffer request in the last arm of from_payload (Protocol), and the
\* command returns that error; the message returned always has identifier E.
C5_OtherResponsesDiscarded ==
    (cmd.op \in OpNames) =>
        /\ ((last_read_is_message /\ last_read_message.id # Ops[cmd.op].res)
               => WaitGoesOn)
        /\ (rx_last = "req_info" =>
               pc = "idle" /\ result = Err(ErrIoOther) /\ got = <<>>)
        /\ (rx_last = "req_pbuf" =>
               pc = "idle" /\ result = Err(ErrProtocol) /\ got = <<>>)
        /\ (got # <<>> => to_message_id(got[1]) = Ops[cmd.op].res)

\* an Info request was read while a command waited, and the command ended
\* with the error of the decoder
C5_RequestEndsCommand ==
    /\ cmd.op \in OpNames
    /\ rx_last = "req_info"
    /\ pc = "idle"
    /\ result = Err(ErrIoOther)

\* a calibrate discarded an Info response and an Ack and then returned its
\* Calibration response
C5_Witness ==
    /\ cmd.op = "calibrate"
    /\ ndiscards = 2
    /\ ntimeouts = 0
    /\ rx_last = "res_calib"
    /\ got # <<>>
    /\ result.ok
    /\ Len(sent) = 1

\* C6 as stated: a payload whose identifier field holds none of the
\* enumerated identifiers is rejected by from_payload: it decodes to no
\* message, so no command returns a message read from it.
C6_UnknownIdentifierRejected ==
    (/\ rx_last \in DOMAIN RxPayload
     /\ last_read_identifier \notin EnumeratedIds) =>
        /\ ~last_read_is_message
        /\ got = <<>>
        /\ ~result.ok

(***************************************************************************)
(* Properties of the frame layer (FrameSpec).                              *)
(***************************************************************************)
\* the value of a character as a hexadecimal digit, 0 when it is none
hex_value(b) == IF to_digit[b] < 0 THEN 0 ELSE to_digit[b]

\* the 16-bit number four characters spell in hexadecimal
crc_field_value(chars) ==
    4096 * hex_value(chars[1]) + 256 * hex_value(chars[2])
        + 16 * hex_value(chars[3]) + hex_value(chars[4])

\* the receive found a line with the header and a footer
line_found == f_out.hpos >= 0 /\ f_out.fpos >= 0

\* the bytes of that line between the end of the header and the 4 characters
\* before the footer, and those 4 characters
line_payload == payload_slice(f_out.buf, f_out.hpos, f_out.fpos)
line_crc == crc_slice(f_out.buf, f_out.fpos)

\* the positions of the CRC characters in the frame of f_payload
CrcPositions ==
    (Len(HEADER) + Len(f_payload) + 1)..(Len(HEADER) + Len(f_payload) + CRC_SIZE)

\* the payload holds an EOL byte
payload_has_eol == \E i \in 1..Len(f_payload) : f_payload[i] = EOM

\* C7: the frame layer returns a payload only when the CRC-16/XMODEM of the
\* bytes between the header and the 4 characters before the footer equals the
\* number those 4 characters spell, and the payload is those bytes; when the
\* two differ the receive fails with a Protocol error.
C7_CrcGate ==
    (f_pc = "received") =>
        /\ (f_out.res.ok =>
              /\ line_found
              /\ crc_field_value(line_crc) = crc16_xmodem(line_payload)
              /\ f_out.res.val = line_payload)
        /\ ((line_found /\ crc_field_value(line_crc) # crc16_xmodem(line_payload))
               => f_out.res = Err(ErrProtocol))

\* a frame with one payload byte replaced was rejected for its CRC
C7_Witness ==
    /\ f_pc = "received"
    /\ f_mod.pos > Len(HEADER)
    /\ f_mod.pos <= Len(HEADER) + Len(f_payload)
    /\ f_mod.byte # EOM
    /\ line_found
    /\ f_out.res = Err(ErrProtocol)

\* C8 as stated: for any payload P, receiving the bytes send wrote for P, not
\* changed in transit, returns exactly P.
C8_RoundTrip ==
    (f_pc = "received" /\ f_mod = NoMod) => f_out.res = Ok(f_payload)

\* C9 as stated: replacing any one of the 4 CRC characters of a valid frame by
\* any different byte makes the receive fail.
C9_AnyCrcByteDetected ==
    (f_pc = "received" /\ f_mod.pos \in CrcPositions /\ ~payload_has_eol)
        => ~f_out.res.ok

\* C9 amended: one of the 4 CRC characters of a valid frame is replaced by a
\* different byte.  When the byte is no EOL byte the receive fails with a
\* Protocol error exactly when its value as a hexadecimal digit, 0 for a byte
\* that is none, differs from the value of the character it replaces, and
\* returns the payload otherwise.  When the byte is the EOL byte the line ends
\* there and the payload is not returned.
C9_CrcValueChangeDetected ==
    (f_pc = "received" /\ f_mod.pos \in CrcPositions /\ ~payload_has_eol) =>
        IF f_mod.byte = EOM THEN f_out.res # Ok(f_payload)
        ELSE IF hex_value(f_mod.byte) # hex_value(send_message_raw(f_payload)[f_mod.pos])
        THEN f_out.res = Err(ErrProtocol)
        ELSE f_out.res = Ok(f_payload)

\* a CRC digit was replaced by a digit of another value and the frame was
\* rejected
C9_Witness ==
    /\ f_pc = "received"
    /\ f_mod.pos \in CrcPositions
    /\ ~payload_has_eol
    /\ Len(f_payload) > 0
    /\ to_digit[f_mod.byte] >= 0
    /\ hex_value(f_mod.byte) # hex_value(send_message_raw(f_payload)[f_mod.pos])
    /\ f_out.res = Err(ErrProtocol)

\* the characters with every one that is no hexadecimal digit replaced by '0'
zero_at_non_hex(chars) ==
    [i \in 1..Len(chars) |-> IF to_digit[chars[i]] < 0 THEN 48 ELSE chars[i]]

\* the number hexadecimal digits spell, most significant first
hex_number(digits) ==
    4096 * to_digit[digits[1]] + 256 * to_digit[digits[2]]
        + 16 * to_digit[digits[3]] + to_digit[digits[4]]

\* the CRC field of the received line holds a character that is no
\* hexadecimal digit
crc_field_has_non_hex ==
    /\ line_found
    /\ Len(line_crc) = CRC_SIZE
    /\ \E i \in 1..CRC_SIZE : to_digit[line_crc[i]] < 0

\* C30: when the 4-character CRC field of a received line holds a character
\* that is no hexadecimal digit, that character counts as the nibble 0: the
\* payload is returned exactly when the field read with 0 at every such
\* position spells the CRC-16/XMODEM of the payload, and the receive fails with
\* a Protocol error otherwise.
C30_NonHexCrcCharIsZero ==
    (f_pc = "received" /\ crc_field_has_non_hex) =>
        IF hex_number(zero_at_non_hex(line_crc)) = crc16_xmodem(line_payload)
        THEN f_out.res = Ok(line_payload)
        ELSE f_out.res = Err(ErrProtocol)

\* a CRC character '0' was replaced in transit by a byte that is no
\* hexadecimal digit and the payload was returned all the same
C30_Witness ==
    /\ f_pc = "received"
    /\ f_mod.pos \in CrcPositions
    /\ crc_field_has_non_hex
    /\ to_digit[f_mod.byte] < 0
    /\ send_message_raw(f_payload)[f_mod.pos] = 48
    /\ f_out.res = Ok(f_payload)

\* a CRC character other than '0' was replaced by such a byte and the frame
\* was rejected
C30_WitnessRejected ==
    /\ f_pc = "received"
    /\ f_mod.pos \in CrcPositions
    /\ crc_field_has_non_hex
    /\ to_digit[f_mod.byte] < 0
    /\ hex_value(send_message_raw(f_payload)[f_mod.pos]) # 0
    /\ f_out.res = Err(ErrProtocol)

\* C10 as stated: an EOL byte inside a frame, before its CR LF footer, does not
\* cut the payload short: the footer honoured is the last one and the receive
\* returns the whole payload.
C10_InnerEolKeepsPayload ==
    (f_pc = "received" /\ f_mod = NoMod /\ payload_has_eol) =>
        /\ f_out.res = Ok(f_payload)
        /\ f_out.fpos = Len(HEADER) + Len(f_payload) + CRC_SIZE

(***************************************************************************)
(* Noise lines (Spec).                                                     *)
(***************************************************************************)
\* what a running command goes on from: its position, its retries left, what
\* it sent, what it holds and what it returned
command_state == <<pc, cmd, self_retries, retries, sent, ntimeouts, got, werr, result>>

\* the step is a read that returned a line without the header
NoiseRead ==
    /\ pc = "await"
    /\ nreads' = nreads + 1
    /\ rx_last' \in RxNames
    /\ window_positions(RxLine[rx_last'], HEADER) = {}

\* C11: a line without the header that is read while a command awaits its
\* response is consumed silently: the read returns no error, sends nothing
\* again and uses no retry, and it leaves the command in the state it was in
\* before the read, so that the command goes on, and ends, as it would have
\* without the line.
C11_NoiseConsumedSilently ==
    [][NoiseRead => /\ command_state' = command_state
                    /\ WaitGoesOn'
                    /\ ndiscards' = ndiscards + 1]_vars

\* a line without the header was read by a command that had timed out once and
\* sent its request again: the command still waits with the retries it had
C11_Witness ==
    /\ rx_last = "noise"
    /\ pc = "await"
    /\ nreads = 2
    /\ ntimeouts = 1
    /\ ndiscards = 1
    /\ cmd.n0 = DEFAULT_RETRIES
    /\ retries = DEFAULT_RETRIES - 1
    /\ Len(sent) = 2

(***************************************************************************)
(* Properties of the codec (CodecSpec).                                    *)
(***************************************************************************)
\* the number of characters a field of each kind takes
FieldWidth ==
    [u8 |-> 2, u16 |-> 4, u32 |-> 8, f32 |-> 8, u64 |-> 16, str12 |-> 12,
     datetime |-> 8]

kinds_width[kinds \in Seq(STRING)] ==
    IF kinds = <<>> THEN 0 ELSE FieldWidth[Head(kinds)] + kinds_width[Tail(kinds)]

\* the lengths of the payloads that hold exactly the positional fields of a
\* response variant: identifier, counter, the mac unless it is an Ack, and
\* the body; an Ack body is the status with or without a mac
WellFormedLens(id) ==
    IF id = "Ack"
    THEN {FieldWidth.u16 * 2 + FieldWidth.u16,
          FieldWidth.u16 * 2 + FieldWidth.u16 + FieldWidth.u64}
    ELSE {FieldWidth.u16 * 2 + FieldWidth.u64 + kinds_width[BodyKinds[id]]}

\* the variant of the response the payload was made from
source_variant ==
    MessageId_new(nib_value[from_str_radix[SubSeq(RxPayload[c_src.name], 1, 4)]])

\* from_payload has returned, or panicked
CodecDone == c_pc \in {"decoded", "panicked", "reencoded"}

\* C12: a response payload is decoded successfully only if nothing is left
\* after the positional fields of its variant, that is only if it has the
\* length the fields of the variant take; a well-formed payload of any response
\* variant (Ack with and without the mac included) with one more byte at its
\* end fails with the codec error Io(Other), and so does a payload cut short
\* to a length that is not the length of the variant.
C12_CursorExhaustion ==
    (c_src.kind = "response" /\ CodecDone) =>
        /\ c_out.ok => Len(c_payload) \in WellFormedLens(source_variant)
        /\ c_edit.kind = "extend" => c_out = Err(ErrIoOther)
        /\ (c_edit.kind = "truncate"
               /\ Len(c_payload) \notin WellFormedLens(source_variant))
             => c_out = Err(ErrIoOther)

\* an Ack without a mac, with one more byte at its end, was rejected with
\* Io(Other)
C12_Witness ==
    /\ c_src.name = "ack_nomac"
    /\ c_edit.kind = "extend"
    /\ c_pc = "decoded"
    /\ c_out = Err(ErrIoOther)

\* C13: every well-formed payload of a recognized identifier decodes without
\* error, and the payload to_payload makes of a request the host sends decodes
\* to a message that to_payload encodes to the same bytes again.
C13_CodecTotality ==
    /\ (c_edit = NoEdit /\ CodecDone) => c_out.ok
    /\ (c_edit = NoEdit /\ c_src.kind = "request" /\ c_pc = "reencoded")
         => c_re = Ok(c_payload)

(***************************************************************************)
(* Properties of the engine over the simulator (SimSpec).                  *)
(***************************************************************************)
\* the relay state the simulator reports for the mac m
relay_reported(m) == plug_state(reader.port.plug, m)

\* the mac the response to the running command carries: the mac of the
\* request, zero for Initialize
expected_response_mac ==
    IF cmd.op = "initialize" THEN nibbles_of[0, 16] ELSE cmd.message.mac

\* C14: over the simulator every get_info(m) returns the relay state of the
\* most recent switch(m, v) that completed and off when there was none, and
\* the relay state the simulator reports for a mac changes only in a step of
\* a switch addressed to that mac: not by a switch to another mac and not by
\* any other command.
C14_RelayFollowsSwitch ==
    /\ []((pc = "idle" /\ cmd.op = "get_info") =>
            /\ result.ok
            /\ result.val.relay_state = (last_switch[cmd.message.mac] = "on"))
    /\ [][\A m \in Macs :
            relay_reported(m)' # relay_reported(m) =>
                (cmd.op = "switch" /\ cmd.message.mac = m)]_vars

\* get_info(Mac1) returned on after Mac1 was switched on and Mac2 was
\* switched off
C14_Witness ==
    /\ pc = "idle"
    /\ cmd.op = "get_info"
    /\ cmd.message.mac = Mac1
    /\ result.ok
    /\ result.val.relay_state
    /\ last_switch[Mac1] = "on"
    /\ last_switch[Mac2] = "off"

\* C15: over the simulator every command succeeds, whatever the mac and
\* whatever ran before it, with one send and one read; a request that was sent
\* leaves exactly one response in the queue of the simulator, the one made for
\* it, and nothing in its output; when the command has returned, the queue,
\* the output and the buffer of the reader are empty and the response it read
\* carries the mac of its own request.
C15_SimulatorInStep ==
    /\ pc \in {"idle", "send", "await"}
    /\ pc = "send" =>
          /\ reader.port.responses = <<>>
          /\ reader.port.output = <<>>
    /\ pc = "await" =>
          /\ nreads = 0
          /\ reader.port.output = <<>>
          /\ reader.port.responses =
                Stub_responses(MessageId_as_bytes(cmd.message.id),
                               expected_response_mac,
                               relay_reported(expected_response_mac))
          /\ Len(reader.port.responses) = 1
    /\ (pc = "idle" /\ cmd # NoCmd) =>
          /\ result.ok
          /\ Len(sent) = 1
          /\ nreads = 1
          /\ ndiscards = 0
          /\ reader.port.responses = <<>>
          /\ reader.port.output = <<>>
          /\ reader.buf = <<>>
          /\ got # <<>>
          /\ IF got[1].id = "Ack"
             THEN got[1].body.mac = <<cmd.message.mac>>
             ELSE got[1].header.mac = expected_response_mac

\* get_power_buffer returned its response after a switch had completed, with
\* nothing left in the simulator
C15_Witness ==
    /\ pc = "idle"
    /\ cmd.op = "get_power_buffer"
    /\ cmd.message.mac = Mac2
    /\ result.ok
    /\ last_switch[Mac1] = "on"
    /\ reader.port.responses = <<>>
    /\ reader.port.output = <<>>


(***************************************************************************)
(* Properties of the device facade (LibSpec).                              *)
(***************************************************************************)
\* the facade operation `op` has returned and no other was called since
returned(op) == api_call.op = op /\ api_pc = "idle" /\ api_result # NoResult

\* the one call of the engine a facade operation made was `op` for `mac`
one_exchange(op, mac) ==
    Len(api_log) = 1 /\ api_log[1].op = op /\ api_log[1].mac = mac

\* plugwise(device) got its transport: connect(transport), which is
\* PlugwiseInner::initialize(port), was called
transport_made == api_call.arg[1].ok

\* C16: connecting over a transport makes exactly one Initialize exchange and
\* fails when that exchange fails or its response has the online flag clear;
\* plugwise(device) that cannot open or configure its serial port never gets
\* to connect: it makes no exchange and returns that error without a facade;
\* the facade comes to exist only in a connect whose Initialize response had
\* the online flag set, and a Circle handle is created only on such a facade.
C16_OnlineBeforeCircles ==
    /\ [](returned("connect") =>
            IF transport_made
            THEN /\ one_exchange("initialize", <<>>)
                 /\ api_result.ok = (stick = "online")
                 /\ ~api_log[1].outcome.ok => api_result = api_log[1].outcome
                 /\ (api_log[1].outcome.ok /\ ~api_log[1].outcome.val.is_online)
                       => api_result = Err(ErrNotOnline)
            ELSE /\ api_log = <<>>
                 /\ api_result = api_call.arg[1]
                 /\ stick = "failed")
    /\ [](stick # "online" => circles = <<>>)
    /\ [][/\ (stick' = "online" /\ stick # "online") =>
               /\ returned("connect")'
               /\ transport_made'
               /\ one_exchange("initialize", <<>>)'
               /\ api_log'[1].outcome.ok
               /\ api_log'[1].outcome.val.is_online
          /\ circles' # circles => (stick = "online" /\ stick' = "online")]_vars

\* a connect has returned whose Initialize response had the online flag clear
C16_Witness ==
    /\ returned("connect")
    /\ transport_made
    /\ api_log[1].outcome.ok
    /\ ~api_log[1].outcome.val.is_online
    /\ stick = "failed"
    /\ api_result = Err(ErrNotOnline)

\* C17: create_circle makes exactly one Calibration exchange, for the mac it
\* is given, and returns a handle with that mac and the decoded calibration
\* when the exchange succeeds and its error, and no handle, when it fails;
\* a handle that exists keeps its mac and its calibration in every step; no
\* operation on a handle calls calibrate.
C17_CalibratedOnce ==
    /\ [](returned("create_circle") =>
            /\ one_exchange("calibrate", api_call.arg)
            /\ api_result.ok = api_log[1].outcome.ok
            /\ ~api_result.ok => api_result = api_log[1].outcome
            /\ api_result.ok => api_result.val = [mac |-> api_call.arg,
                                                  calibration_data |-> api_log[1].outcome.val])
    /\ [](api_call.handle > 0 =>
            \A i \in 1..Len(api_log) : api_log[i].op # "calibrate")
    /\ [][/\ \A h \in 1..Len(circles) : Len(circles') >= h /\ circles'[h] = circles[h]
          /\ circles' # circles =>
               /\ returned("create_circle")'
               /\ api_result'.ok
               /\ circles' = Append(circles, api_result'.val)
          /\ (api_call'.op = "create_circle" /\ ~api_log'[1].outcome.ok) =>
               circles' = circles]_vars

\* get_actual_watt_usage has returned a value computed from the calibration
\* the handle got when it was created
C17_Witness ==
    /\ returned("get_actual_watt_usage")
    /\ api_result.ok
    /\ ~api_result.val.zero
    /\ api_result.val.calibration = <<circles[api_call.handle].calibration_data>>
    /\ api_log[1].op = "get_power_usage"

\* the last log index the Info exchange of get_power_buffer reported
reported_last == api_log[1].outcome.val.last_logaddr

\* the index the claim lets the PowerBuffer exchanges start at
claimed_start ==
    IF api_call.arg = <<>> THEN 0
    ELSE Max({0, reported_last - (api_call.arg[1] \div 4)})

\* C18: get_power_buffer first makes one Info exchange; when that fails the
\* call returns its error; else it makes one PowerBuffer exchange for each
\* index from max(0, last_logaddr - max_entries / 4), or from 0 without
\* max_entries, up to last_logaddr in ascending order, and returns a map
\* only after the exchange for last_logaddr; an exchange that fails is the
\* last one and the call returns its error and no map.
C18_ExchangesOfPowerBuffer ==
    api_call.op = "get_power_buffer" =>
        /\ Len(api_log) >= 1
        /\ api_log[1].op = "get_info"
        /\ \A i \in 1..Len(api_log) :
             /\ api_log[i].mac = circles[api_call.handle].mac
             /\ i < Len(api_log) => api_log[i].outcome.ok
        /\ ~api_log[1].outcome.ok => Len(api_log) = 1
        /\ api_log[1].outcome.ok =>
             \A i \in 2..Len(api_log) :
                /\ api_log[i].op = "get_power_buffer"
                /\ api_log[i].arg = claimed_start + (i - 2)
                /\ api_log[i].arg <= reported_last
        /\ ~api_log[Len(api_log)].outcome.ok =>
             /\ returned("get_power_buffer")
             /\ api_result = api_log[Len(api_log)].outcome
        /\ returned("get_power_buffer") =>
             IF api_result.ok
             THEN /\ api_log[Len(api_log)].outcome.ok
                  /\ Len(api_log) = 1 + (reported_last - claimed_start + 1)
             ELSE ~api_log[Len(api_log)].outcome.ok

\* get_power_buffer(Some(4)) has returned a map on a circle that answered
\* Info as the simulator does, with the last log index 540, after the
\* exchanges for the indexes 539 and 540
C18_Witness ==
    /\ returned("get_power_buffer")
    /\ api_result.ok
    /\ api_call.arg = <<4>>
    /\ reported_last = 540
    /\ Len(api_log) = 3
    /\ api_log[2].arg = 539
    /\ api_log[3].arg = 540

\* the DateTimes of the entries get_power_buffer read are all different
read_all_distinct ==
    \A i, j \in 1..Len(api_read) :
        i # j => api_read[i].datetime # api_read[j].datetime

\* C19: the map get_power_buffer(Some(n)) returns holds at most n entries,
\* when the DateTimes of the entries it read are all different.
C19_AtMostMaxEntries ==
    (/\ returned("get_power_buffer")
     /\ api_result.ok
     /\ api_call.arg # <<>>
     /\ read_all_distinct)
        => Len(api_result.val) <= api_call.arg[1]

\* a DateTime as the specification wants it: month 1..12, day 1..31; any
\* other is invalid
DateTime_in_range(dt) ==
    dt[2] \in 1..12 /\ (1 + (dt[3] \div 1440)) \in 1..31

\* the entries get_power_buffer read whose DateTime is valid, by their place
\* in the order of reading, and the timestamp of such an entry
valid_read == {i \in 1..Len(api_read) : DateTime_in_range(api_read[i].datetime)}
timestamp_read(i) == DateTime_to_tm(api_read[i].datetime, build_checks).ts

\* the entry read last among the valid ones with this timestamp
last_read_at(key) == Max({i \in valid_read : timestamp_read(i) = key})

\* C20: the map get_power_buffer returns has its keys in strictly ascending
\* order of iteration; its keys are the timestamps of the entries read whose
\* DateTime is valid, and the value of a key is the energy of the entry read
\* last with that timestamp; an entry with an invalid DateTime causes no
\* error: the call does not panic.
C20_MapOfValidEntries ==
    /\ (returned("get_power_buffer") /\ api_result.ok) =>
          /\ \A j \in 1..(Len(api_result.val) - 1) :
                api_result.val[j].key < api_result.val[j + 1].key
          /\ {api_result.val[j].key : j \in 1..Len(api_result.val)}
                = {timestamp_read(i) : i \in valid_read}
          /\ \A j \in 1..Len(api_result.val) :
                /\ last_read_at(api_result.val[j].key) \in valid_read
                /\ api_result.val[j].value
                     = to_energy("kWh", api_read[last_read_at(api_result.val[j].key)].pulses,
                                 circles[api_call.handle].calibration_data)
    /\ api_call.op = "get_power_buffer" => api_pc # "panicked"

\* C21: to_tm reports a DateTime invalid whenever its month is outside 1..12,
\* month 0 included, or its day outside 1..31, without a panic and without a
\* wrapped month, and yields a calendar value otherwise: get_power_buffer
\* never panics in to_tm, and the keys of the map it returns are the
\* timestamps of the entries read whose DateTime is in range.
C21_OutOfRangeReportedInvalid ==
    /\ ~(api_call.op = "get_power_buffer" /\ api_pc = "panicked")
    /\ (returned("get_power_buffer") /\ api_result.ok) =>
          {api_result.val[j].key : j \in 1..Len(api_result.val)}
             = {timestamp_read(i) :
                  i \in valid_read}

(***************************************************************************)
(* Properties of the log address conversion (CodecSpec).                   *)
(***************************************************************************)
\* the number eight characters spell in hexadecimal
hex8_value(chars) ==
    65536 * crc_field_value(SubSeq(chars, 1, 4)) + crc_field_value(SubSeq(chars, 5, 8))

\* the log index of the PowerBuffer request that is encoded, or of the
\* PowerBuffer response that is decoded
source_index == nib_value[c_src.message.arg]

\* a PowerBuffer response made for a log index was decoded as it is
addressed_response_decoded ==
    /\ c_src.kind = "response"
    /\ c_src.name = "res_pbuf"
    /\ c_src.message.arg # <<>>
    /\ c_edit = NoEdit
    /\ c_pc \in {"decoded", "reencoded"}

\* C22: for a log index i below 2^20 the PowerBuffer request is encoded
\* without overflow and carries i * 32 + 278528 as 8 uppercase hexadecimal
\* characters after the mac; the PowerBuffer response that carries this
\* address decodes to the index i; the index decoded from the address a of
\* an Info response is (a - 278528) / 32.
C22_LogAddressRoundTrip ==
    /\ (c_src.kind = "request" /\ c_src.name = "get_power_buffer") =>
          /\ c_pc # "panicked"
          /\ (c_pc = "ready" /\ c_edit = NoEdit) =>
                c_payload = format_hex[nibbles_of[REQ_POWER_BUFFER, 4] \o c_src.message.mac
                                       \o nibbles_of[source_index * 32 + 278528, 8]]
    /\ addressed_response_decoded =>
          /\ hex8_value(SubSeq(c_payload, Len(c_payload) - 7, Len(c_payload)))
                = source_index * 32 + 278528
          /\ c_out.ok
          /\ c_out.val.body.logaddr = source_index
    /\ (c_src.kind = "response" /\ c_src.name \in {"res_info1", "res_info2"}
           /\ c_edit = NoEdit /\ c_pc \in {"decoded", "reencoded"}) =>
          /\ c_out.ok
          /\ c_out.val.body.last_logaddr
                = (hex8_value(SubSeq(c_payload, 33, 40)) - 278528) \div 32

\* the response with the address of the last index below 2^20 was decoded
C22_Witness ==
    /\ addressed_response_decoded
    /\ source_index = 1048575
    /\ c_pc = "decoded"
    /\ c_out.ok
    /\ c_out.val.body.logaddr = 1048575

\* the calendar value the claim lets get_clock return for the DateTime dt of
\* the Info response and the body clock of the ClockInfo response
claimed_clock(dt, clock) ==
    [tm_year |-> 100 + dt[1], tm_mon |-> dt[2] - 1, tm_mday |-> 1 + (dt[3] \div 1440),
     tm_hour |-> clock.hour, tm_min |-> clock.minute, tm_sec |-> clock.second,
     tm_wday |-> clock.day_of_week % 7, tm_utcoff |-> 0]

\* C23: get_clock makes the Info exchange first and the ClockInfo exchange
\* only when the Info exchange succeeded, and returns the error of the one
\* that fails; when both succeed it returns the invalid-timestamp error if
\* the DateTime of Info is invalid, and else the year, month and day of that
\* DateTime with the hour, minute and second of ClockInfo and its day of the
\* week modulo 7; it does not panic.
C23_ClockFromInfoAndClockInfo ==
    /\ api_call.op = "get_clock" => api_pc # "panicked"
    /\ returned("get_clock") =>
          /\ Len(api_log) \in {1, 2}
          /\ api_log[1].op = "get_info"
          /\ (Len(api_log) = 1) = ~api_log[1].outcome.ok
          /\ Len(api_log) = 2 => api_log[2].op = "get_clock_info"
          /\ ~api_log[Len(api_log)].outcome.ok =>
                api_result = api_log[Len(api_log)].outcome
          /\ api_log[Len(api_log)].outcome.ok =>
                api_result
                   = IF DateTime_in_range(api_log[1].outcome.val.datetime)
                     THEN Ok(claimed_clock(api_log[1].outcome.val.datetime,
                                           api_log[2].outcome.val))
                     ELSE Err(ErrInvalidTimestamp)

\* the request set_clock handed to the engine, and the time it was called
\* with
clock_request == api_log[1].arg
clock_tm == api_call.arg[1]

\* C24: for a time whose day of the week w is in 0..6, Sunday being 0, the
\* ClockSet request carries w for w in 1..6 and 7 for w = 0, as the last two
\* hexadecimal characters of its payload; the value carried is in 1..7 and
\* is w modulo 7.
C24_DayOfWeekMapping ==
    (api_call.op = "set_clock" /\ clock_tm.tm_wday \in 0..6) =>
        /\ returned("set_clock")
        /\ one_exchange("set_clock", circles[api_call.handle].mac)
        /\ clock_request.day_of_week
              = IF clock_tm.tm_wday = 0 THEN 7 ELSE clock_tm.tm_wday
        /\ clock_request.day_of_week \in 1..7
        /\ clock_request.day_of_week % 7 = clock_tm.tm_wday
        /\ \E payload \in {to_payload([id |-> "ReqClockSet", mac |-> api_log[1].mac,
                                      arg |-> clock_request], build_checks)} :
              /\ payload.ok
              /\ SubSeq(payload.val, Len(payload.val) - 1, Len(payload.val))
                    = format_hex[nibbles_of[clock_request.day_of_week, 2]]

\* set_clock was called with a time on a Sunday and the request carried 7
C24_Witness ==
    /\ returned("set_clock")
    /\ api_result.ok
    /\ clock_tm.tm_wday = 0
    /\ clock_request.day_of_week = 7

(***************************************************************************)
(* Properties of the command engine (Spec), continued.                     *)
(***************************************************************************)
\* the lengths a send may have written of a frame: all of it, or the writes
\* before the one that failed
write_boundaries(frame) ==
    {0, Len(HEADER), Len(frame) - CRC_SIZE - Len(FOOTER), Len(frame) - Len(FOOTER),
     Len(frame)}

\* C25: one request is in flight at a time and commands are served in the
\* order of their calls: from the call of a command to its return no other
\* command starts, whatever the handle it is called through, and every byte
\* written in between belongs to the frame of that command, each send
\* writing header, payload, CRC and footer in this order with nothing in
\* between.
C25_OneRequestInFlight ==
    /\ [](pc \in {"send", "await"} =>
            \E frame \in {request_frame} :
               \A i \in 1..Len(sent) :
                  /\ Len(sent[i]) \in write_boundaries(frame)
                  /\ sent[i] = SubSeq(frame, 1, Len(sent[i]))
                  /\ i < Len(sent) => sent[i] = frame)
    /\ [][/\ pc \in {"send", "await"} => cmd' = cmd
          /\ (pc \in {"send", "await"} /\ sent' # sent) =>
                \E frame \in {request_frame} :
                   /\ Len(sent') = Len(sent) + 1
                   /\ SubSeq(sent', 1, Len(sent)) = sent
                   /\ sent'[Len(sent')] = SubSeq(frame, 1, Len(sent'[Len(sent')]))]_vars

\* a command called for the second mac is in flight after its second send
C25_Witness ==
    /\ pc = "await"
    /\ Len(sent) = 2
    /\ cmd.message.mac = Mac2
    /\ sent[2] = request_frame

\* C26: every command terminates: a command that was called returns (or
\* panics) in the end, after at most self.retries + 1 sends, whatever the
\* transport delivers while the command waits: lines without header,
\* messages with other identifiers, Acks for other macs, reads of zero bytes.
C26_EveryCommandTerminates ==
    /\ [](pc \in {"send", "await"} => Len(sent) <= self_retries + 1)
    /\ (pc \in {"send", "await"}) ~> (pc \in {"idle", "panicked"})

(***************************************************************************)
(* Properties of the simulator written to as it is (StubSpec).             *)
(***************************************************************************)
\* a step that writes a frame to the Stub as it is
stub_written == cmd'.op = "write" /\ sent' # sent

\* the identifier of the frame written is none of the eight the Stub supports
unsupported_written == cmd'.message.id \notin {StubCommand[c] : c \in DOMAIN StubCommand}

\* the write failed with an error, the plug map is as it was and no response
\* was pushed
write_rejected ==
    /\ result' = Err(ErrIoOther)
    /\ pc' # "panicked"
    /\ reader'.port.plug = reader.port.plug
    /\ reader'.port.responses = reader.port.responses

\* the 16 bytes that follow the identifier in what handle_incoming gets (the
\* payload and the CRC field) are there and from_hex_buffer reads a number
\* from them
mac_field_readable(payload) ==
    /\ Len(payload) >= 16
    /\ Stub_from_hex_buffer(
          SubSeq(payload \o format_hex[nibbles_of[crc16_xmodem(payload), 4]], 5, 20)) # <<-1>>

\* C27 as stated: every write of a frame whose identifier is none of the
\* eight request identifiers fails with an error, leaves the plug map as it
\* was and pushes no response.
C27_UnknownCommandFails ==
    [][(stub_written /\ unsupported_written) => write_rejected]_vars

\* The part of C27 that the Stub keeps: a write of a frame whose identifier
\* is none of the eight request identifiers, and in which the identifier is
\* followed by 16 bytes that from_hex_buffer reads, fails with the error
\* Other, leaves the plug map as it was and pushes no response.
C27_UnknownCommandRejected ==
    [][(stub_written /\ unsupported_written /\ mac_field_readable(cmd'.message.arg))
          => write_rejected]_vars

\* an Ack frame was written to a Stub that remembers a switch state, and the
\* write failed
C27_Witness ==
    /\ cmd.op = "write"
    /\ cmd.message.id = format_hex[nibbles_of[ACK, 4]]
    /\ Len(sent) = 1
    /\ result = Err(ErrIoOther)
    /\ DOMAIN reader.port.plug # {}
    /\ reader.port.responses = <<>>

(***************************************************************************)
(* Properties of the power arithmetic (PowerSpec).                         *)
(***************************************************************************)
\* to_watts(C) / 1000 * (dt / 3600) in f64, for the watts computed and the
\* timespan of the Pulses they were computed from
kwh_of_watts ==
    f64_mul(f64_div(power.watts[1], f64_from_int(1000)),
            f64_div(f64_from_int(power.usage[power.window].timespan), f64_from_int(3600)))

\* x and y are equal or differ by less than 2^-50 of the magnitude of y
f64_close(x, y) ==
    \E d \in {f64_add(x, [y EXCEPT !.s = 1 - y.s])} :
        \/ d.m = <<>>
        \/ y.m # <<>> /\ d.e <= y.e - 51

both_computed == power.watts # <<>> /\ power.kwh # <<>>

\* get_actual_watt_usage returns the watts of the window of 8 s, its
\* timespan being 8
actual_of_8s ==
    /\ power.usage # <<>> => power.usage.pulse_8s.timespan = 8
    /\ (power.actual # <<>> /\ power.watts # <<>> /\ power.window = "pulse_8s")
          => power.actual = power.watts
    /\ (power.actual # <<>> /\ power.watts # <<>> /\ power.actual # power.watts)
          => power.usage[power.window] # power.usage.pulse_8s

\* C28 as stated: to_watts(C) / 1000 * (dt / 3600) equals to_kwh(C) for
\* every calibration and all Pulses, and get_actual_watt_usage is to_watts of
\* the Pulses of the window of 8 s.
C28_PowerIdentityExact ==
    /\ both_computed => f64_eq(kwh_of_watts, power.kwh[1])
    /\ actual_of_8s

\* C28: to_watts(C) / 1000 * (dt / 3600) and to_kwh(C), both made from the
\* same kW value, are equal up to the rounding of the f64 operations: they
\* differ by less than 2^-50 of their magnitude; get_actual_watt_usage is
\* to_watts of the Pulses of the window of 8 s.
C28_PowerIdentityRounded ==
    /\ both_computed => f64_close(kwh_of_watts, power.kwh[1])
    /\ actual_of_8s

\* watts and kWh were computed for 9 pulses in 8 s under a calibration with
\* four constants other than 0, they differ in the last place, and
\* get_actual_watt_usage returned
C28_Witness ==
    /\ both_computed
    /\ power.window = "pulse_8s"
    /\ power.usage.pulse_8s.pulses = nibbles_of[9, 8]
    /\ power.calibration.off_noise # nibbles_of[0, 8]
    /\ power.actual = power.watts
    /\ power.kwh[1].m # <<>>
    /\ ~f64_eq(kwh_of_watts, power.kwh[1])

(***************************************************************************)
(* Properties of sending on a transport that may take fewer bytes than it  *)
(* is offered (ShortSpec).                                                 *)
(***************************************************************************)
\* C29: when a send returned success (the command waits for its response, or
\* has returned after one), the transport has taken every byte of HEADER,
\* payload, CRC and FOOTER of the request, in this order, the CRC being the
\* CRC-16/XMODEM of the payload alone as 4 uppercase hexadecimal digits,
\* whatever the number of bytes a write of the transport takes.
C29_SuccessMeansWholeFrame ==
    (pc = "await" \/ (pc = "idle" /\ cmd # NoCmd /\ ~werr /\ sent # <<>>)) =>
        \E payload \in {to_payload(cmd.message, build_checks).val} :
           sent[Len(sent)] = HEADER \o payload
                             \o format_hex[nibbles_of[crc16_xmodem(payload), 4]]
                             \o FOOTER

(***************************************************************************)
(* Properties of the pulse counts that stand for no measurement            *)
(* (PowerSpec).                                                            *)
(***************************************************************************)
\* the Pulses the conversions were applied to, and their count as a number
\* when it is 0 or 0xffff
power_pulses == power.usage[power.window]
no_measurement ==
    \/ power_pulses.pulses = nibbles_of[0, 8]
    \/ power_pulses.pulses = nibbles_of[0, 4] \o nibbles_of[65535, 4]

\* gain_b * r^2 + gain_a * r + off_total for r = p / dt + off_noise, in f64
calibrated_rate ==
    LET r == f64_add(f64_div(f64_from_nibbles(power_pulses.pulses),
                             f64_from_int(power_pulses.timespan)),
                     f64_from_f32(power.calibration.off_noise)[1])
    IN f64_add(f64_add(f64_mul(f64_mul(r, r), f64_from_f32(power.calibration.gain_b)[1]),
                       f64_mul(r, f64_from_f32(power.calibration.gain_a)[1])),
               f64_from_f32(power.calibration.off_total)[1])

\* C31: for Pulses of 0 or of 0xffff pulses to_watts and to_kwh return 0.0
\* whatever the calibration is; for every other count they are made from the
\* rate the calibration formula gives.
C31_NoMeasurementIsZero ==
    /\ (no_measurement /\ power.watts # <<>>) => power.watts[1] = f64_zero(0)
    /\ (no_measurement /\ power.kwh # <<>>) => power.kwh[1] = f64_zero(0)
    /\ (~no_measurement /\ power.usage # <<>> /\ power.watts # <<>>) =>
           power.watts[1] = f64_mul(f64_div(calibrated_rate, PULSES_PER_KW),
                                    f64_from_int(1000))
    /\ (~no_measurement /\ power.usage # <<>> /\ power.kwh # <<>>) =>
           power.kwh[1] = f64_mul(f64_div(calibrated_rate, PULSES_PER_KW),
                                  f64_div(f64_from_int(power_pulses.timespan),
                                          f64_from_int(3600)))

\* watts and kWh were computed for 0xffff pulses in an hour under a
\* calibration whose off_total is not 0, and both are 0.0
C31_Witness ==
    /\ both_computed
    /\ power.window = "pulse_hour"
    /\ power_pulses.pulses = nibbles_of[0, 4] \o nibbles_of[65535, 4]
    /\ power.calibration.off_total # nibbles_of[0, 8]
    /\ power.watts[1] = f64_zero(0)
    /\ power.kwh[1] = f64_zero(0)

(***************************************************************************)
(* Properties of the DateTime of a calendar time (ClkSpec).                *)
(***************************************************************************)
\* the calendar time is one of UTC in the years 2000..2255
utc_in_range ==
    /\ clk.tm # <<>>
    /\ clk.tm.tm_utcoff = 0
    /\ clk.tm.tm_year + 1900 \in 2000..2255

\* C32: for a UTC calendar time of the years 2000..2255 DateTime::new gives
\* the year less 2000, the month 1..12 and the minutes of the month
\* (day - 1) * 1440 + hour * 60 + minute, which are below 2^16, and to_tm
\* of that DateTime gives the same year, month, day, hour and minute with
\* second 0.
C32_DateTimeRoundTrip ==
    /\ (utc_in_range /\ clk.datetime # <<>>) =>
           /\ clk.datetime[1][1] = clk.tm.tm_year - 100
           /\ clk.datetime[1][2] = clk.tm.tm_mon + 1
           /\ clk.datetime[1][2] \in 1..12
           /\ clk.datetime[1][3] = (clk.tm.tm_mday - 1) * 1440 + clk.tm.tm_hour * 60
                                      + clk.tm.tm_min
    /\ (utc_in_range /\ clk.back # <<>>) =>
           /\ clk.back[1].kind = "some"
           /\ clk.back[1].tm.tm_year = clk.tm.tm_year
           /\ clk.back[1].tm.tm_mon = clk.tm.tm_mon
           /\ clk.back[1].tm.tm_mday = clk.tm.tm_mday
           /\ clk.back[1].tm.tm_hour = clk.tm.tm_hour
           /\ clk.back[1].tm.tm_min = clk.tm.tm_min
           /\ clk.back[1].tm.tm_sec = 0

\* 23:59:59 on 31 December 2255 was encoded and decoded again
C32_Witness ==
    /\ utc_in_range
    /\ clk.tm.tm_year = 355
    /\ clk.tm.tm_mon = 11
    /\ clk.tm.tm_mday = 31
    /\ clk.tm.tm_hour = 23
    /\ clk.tm.tm_min = 59
    /\ clk.tm.tm_sec = 59
    /\ clk.datetime = <<DateTime_new_raw(255, 12, 44639)>>
    /\ clk.back # <<>>
    /\ clk.back[1].kind = "some"
    /\ clk.back[1].tm.tm_mday = 31

(***************************************************************************)
(* Properties of the matching of responses (Spec).                         *)
(***************************************************************************)
\* the command in hand awaits a response other than an Ack
awaits_response == cmd.op \in OpNames /\ ~Ops[cmd.op].ack

\* the step is a read of the await loop
is_read == pc = "await" /\ nreads' = nreads + 1

\* C33: for the commands that await a response other than an Ack, a read
\* that decodes a message with the awaited identifier ends the command with
\* the body of that message, whatever the SocketId and the sequence counter
\* of its header are, and a command that returned a message returned one
\* with the awaited identifier.
C33_MatchedOnIdentifierOnly ==
    /\ []((pc = "idle" /\ awaits_response /\ got # <<>>) =>
             /\ got[1].id = Ops[cmd.op].res
             /\ result = Ok(got[1].body))
    /\ [][(/\ is_read
            /\ awaits_response
            /\ rx_last' \in RxNames
            /\ Decoded[build_checks][rx_last'].kind = "msg"
            /\ Decoded[build_checks][rx_last'].msg.id = Ops[cmd.op].res) =>
              /\ pc' = "idle"
              /\ got' = <<Decoded[build_checks][rx_last'].msg>>
              /\ result' = Ok(Decoded[build_checks][rx_last'].msg.body)]_vars

\* get_info for the first Circle timed out once, sent its request again and
\* returned the Info response of the second Circle, whose counter is the one
\* of an earlier request
C33_Witness ==
    /\ pc = "idle"
    /\ cmd.op = "get_info"
    /\ cmd.message.mac = Mac1
    /\ ntimeouts = 1
    /\ Len(sent) = 2
    /\ rx_last = "res_info2_late"
    /\ got # <<>>
    /\ got[1].header.mac = Mac2
    /\ got[1].header.count = nibbles_of[LateCount, 4]
    /\ result = Ok(got[1].body)
    /\ result.val.relay_state

(***************************************************************************)
(* Properties of the status of an Ack (Spec).                              *)
(***************************************************************************)
\* the command in hand awaits an Ack of the Circle it addresses
awaits_ack == cmd.op \in OpNames /\ Ops[cmd.op].ack

\* C34: switch and set_clock return success at the first read that decodes
\* an Ack whose mac is the one addressed, whatever the status of the Ack is,
\* without an error, a resend or a used retry; two Acks that differ in the
\* status alone lead the await loop to the same outcome.
C34_AckStatusIgnored ==
    /\ [](awaits_ack =>
             await_step("ack1", cmd, build_checks).kind
                = await_step("ack1_status", cmd, build_checks).kind)
    /\ [][(/\ is_read
            /\ awaits_ack
            /\ rx_last' \in RxNames
            /\ Decoded[build_checks][rx_last'].kind = "msg"
            /\ Decoded[build_checks][rx_last'].msg.id = "Ack"
            /\ Decoded[build_checks][rx_last'].msg.body.mac = <<cmd.message.mac>>) =>
              /\ pc' = "idle"
              /\ result' = Ok(<<>>)
              /\ retries' = retries
              /\ sent' = sent]_vars

\* a switch of the first Circle succeeded at its first read, which returned
\* an Ack of that Circle with the status 0x00E1
C34_Witness ==
    /\ pc = "idle"
    /\ cmd.op = "switch"
    /\ cmd.message.mac = Mac1
    /\ rx_last = "ack1_status"
    /\ nreads = 1
    /\ Len(sent) = 1
    /\ retries = cmd.n0
    /\ got # <<>>
    /\ got[1].body.status = nibbles_of[225, 4]
    /\ result = Ok(<<>>)

(***************************************************************************)
(* Properties of the retries of successive exchanges (BudgetSpec).         *)
(***************************************************************************)
\* C35: every exchange starts with the configured number of retries,
\* whatever the exchanges before it ran into; no command changes the
\* configured number, only set_retries between two commands does, and the
\* number it sets is the one the exchanges after it start with; an exchange
\* gives up for timeouts only after one send more than that number.
C35_BudgetPerExchange ==
    /\ [][(pc = "idle" /\ pc' = "send") =>
              /\ retries' = self_retries
              /\ cmd'.n0 = self_retries
              /\ self_retries' = self_retries]_vars
    /\ [][self_retries' # self_retries => (pc = "idle" /\ pc' = "idle")]_vars
    /\ [](pc = "await" => retries = cmd.n0 - ntimeouts)
    /\ []((pc = "idle" /\ cmd.op # "none" /\ ~werr /\ result = Err(ErrIoTimedOut)) =>
             /\ ntimeouts = cmd.n0 + 1
             /\ Len(sent) = cmd.n0 + 1)

\* an exchange that started after one that had used up its retries in
\* timeouts gave up only after all the retries set in between
C35_Witness ==
    /\ spent = 1
    /\ cmd.n0 = MaxRetries
    /\ self_retries = MaxRetries
    /\ pc = "idle"
    /\ ~werr
    /\ result = Err(ErrIoTimedOut)
    /\ ntimeouts = MaxRetries + 1
    /\ Len(sent) = MaxRetries + 1

(***************************************************************************)
(* Properties of a send that fails (Spec).                                 *)
(***************************************************************************)
\* C36: when a write of a send fails, on the first send or on a later one
\* and whatever the error is, the command returns that error in the same
\* step: no read follows, the request is not sent again and the retries
\* that are left stay unused.
C36_WriteFailureReturns ==
    /\ [][(pc = "send" /\ werr') =>
              /\ pc' = "idle"
              /\ result' \in {Err(ErrIoTimedOut), Err(ErrIoOther)}
              /\ Len(sent') = Len(sent) + 1
              /\ sent'[Len(sent')] # request_frame
              /\ nreads' = nreads
              /\ retries' = retries]_vars
    /\ []((pc = "idle" /\ werr) =>
             /\ ~result.ok
             /\ rx_last \in {"none", ErrIoTimedOut}
             /\ ntimeouts = Len(sent) - 1
             /\ retries = cmd.n0 - ntimeouts)

\* the second send of a command failed with a timeout at its third write;
\* the command returned that error with a retry left
C36_Witness ==
    /\ pc = "idle"
    /\ werr
    /\ result = Err(ErrIoTimedOut)
    /\ Len(sent) = 2
    /\ sent[1] = request_frame
    /\ Len(sent[2]) = Len(request_frame) - Len(FOOTER) - CRC_SIZE
    /\ retries >= 1
    /\ nreads = 1

(***************************************************************************)
(* Properties of the day of the week of a ClockSet request (ClkSpec).      *)
(***************************************************************************)
\* the day of the week, 1 for Monday to 7 for Sunday, of the date a
\* DateTime carries
weekday_of(dt) ==
    The({IF w = 0 THEN 7 ELSE w
         : w \in {(days_from_civil(2000 + dt[1], dt[2], 1 + (dt[3] \div 1440)) + 4) % 7}})

\* C37: the day of the week of a ClockSet request that new_from_tm built is
\* the day of the week of the UTC date the request carries, and its hour and
\* minute are those of its DateTime, for every calendar time it is built
\* from, one of a zone other than UTC included.
C37_DayOfWeekOfUtcDate ==
    (clk.request # <<>> /\ clk.request[1].ok /\ clk.tm.tm_year + 1900 \in 2000..2255) =>
        /\ clk.request[1].val.day_of_week = weekday_of(clk.request[1].val.datetime)
        /\ clk.request[1].val.hour = (clk.request[1].val.datetime[3] \div 60) % 24
        /\ clk.request[1].val.minute = clk.request[1].val.datetime[3] % 60

(***************************************************************************)
(* Properties of the log address of a response (CodecSpec).                *)
(***************************************************************************)
\* a well-formed Info or PowerBuffer response of the catalogue was taken as
\* it is, and the place of the 8 characters of its log address: after the
\* identifier, the counter, the mac and the fields before it
address_source ==
    /\ c_src.kind = "response"
    /\ c_src.name \in {"res_info1", "res_info2", "res_info_low", "res_pbuf"}
    /\ c_edit = NoEdit
    /\ c_pc \in {"decoded", "panicked", "reencoded"}

address_at == IF c_src.name = "res_pbuf" THEN 24 + 64 ELSE 24 + 8

\* the upper and the lower 16 bits of the address on the wire
wire_address_hi ==
    4096 * to_digit[c_payload[address_at + 1]] + 256 * to_digit[c_payload[address_at + 2]]
      + 16 * to_digit[c_payload[address_at + 3]] + to_digit[c_payload[address_at + 4]]
wire_address_lo ==
    4096 * to_digit[c_payload[address_at + 5]] + 256 * to_digit[c_payload[address_at + 6]]
      + 16 * to_digit[c_payload[address_at + 7]] + to_digit[c_payload[address_at + 8]]

\* the address is below ADDR_OFFS = 4 * 65536 + 16384
wire_address_low ==
    wire_address_hi < 4 \/ (wire_address_hi = 4 /\ wire_address_lo < 16384)

\* the log index of the decoded body
decoded_index ==
    IF c_src.name = "res_pbuf" THEN c_out.val.body.logaddr ELSE c_out.val.body.last_logaddr

\* C38: decoding a well-formed Info or PowerBuffer response does not panic;
\* an address of at least ADDR_OFFS becomes the index
\* (address - ADDR_OFFS) / BYTES_PER_POS, and a response with a smaller
\* address yields no index.
C38_NoAddressUnderflow ==
    address_source =>
        /\ c_pc # "panicked"
        /\ IF wire_address_low THEN ~c_out.ok
           ELSE /\ c_out.ok
                /\ decoded_index
                     = (wire_address_hi - 4) * 2048 + ((wire_address_lo - 16384) \div 32)

(***************************************************************************)
(* Properties of the simulator after a command it does not support         *)
(* (StubSpec).                                                             *)
(***************************************************************************)
RECURSIVE frames_from(_, _)
\* the frames written from the k-th on, one after the other
frames_from(frames, k) ==
    IF k > Len(frames) THEN <<>> ELSE frames[k] \o frames_from(frames, k + 1)

\* the identifier of a frame: the 4 characters after the header
frame_id(frame) == SubSeq(frame, Len(HEADER) + 1, Len(HEADER) + 4)

\* a write of a frame failed with the error of a command that is not
\* supported
write_failed == cmd.op = "write" /\ pc = "written" /\ result = Err(ErrIoOther)

\* the input of the Stub holds, after at most the LF an earlier frame left,
\* a frame of a command that is not supported, written as the k-th, and all
\* that was written after it
rejected_frame_kept ==
    \E k \in 1..Len(sent), p \in {0, 1} :
       /\ frame_id(sent[k]) \notin {StubCommand[c] : c \in DOMAIN StubCommand}
       /\ SubSeq(reader.port.input, 1, p) = SubSeq(<<EOM>>, 1, p)
       /\ SubSeq(reader.port.input, p + 1, Len(reader.port.input)) = frames_from(sent, k)

\* C39: after a write to the simulator failed for a command it does not
\* support, the frame of that command is still the first in its input, and
\* every later write, of a frame of a supported command too, fails with the
\* same error, pushes no response and changes no switch state.
C39_RejectedFrameBlocksStub ==
    /\ [](write_failed => rejected_frame_kept)
    /\ [][(write_failed /\ stub_written) =>
              /\ result' = Err(ErrIoOther)
              /\ pc' = "written"
              /\ reader'.port.responses = reader.port.responses
              /\ reader'.port.plug = reader.port.plug
              /\ reader'.port.output = reader.port.output]_vars

\* after an exchange of the engine an Ack frame was written and rejected;
\* then the frame of an info request was written, and that write failed too
C39_Witness ==
    /\ write_failed
    /\ Len(sent) = 2
    /\ frame_id(sent[1]) = format_hex[nibbles_of[ACK, 4]]
    /\ frame_id(sent[2]) = StubCommand.info
    /\ reader.port.input = <<EOM>> \o sent[1] \o sent[2]
    /\ reader.port.responses = <<>>

(***************************************************************************)
(* Positions of the header and the footer in a received line (FrameSpec).  *)
(***************************************************************************)
\* the line the receive stopped at holds the header, and it holds the footer
line_has_header == window_positions(f_out.buf, HEADER) # {}
line_has_footer == window_positions(f_out.buf, FOOTER) # {}

\* the two split_at of the trace of the line: at header_pos + 4 in the line,
\* then at footer_pos - (header_pos + 4) in what follows
trace_split_in_bounds ==
    /\ f_out.hpos + Len(HEADER) <= Len(f_out.buf)
    /\ f_out.fpos - (f_out.hpos + Len(HEADER)) >= 0
    /\ f_out.fpos - (f_out.hpos + Len(HEADER)) <= Len(f_out.buf) - (f_out.hpos + Len(HEADER))

\* C40: a received line with the header and a footer has its footer at
\* header_pos + 4 or later, at the end of the line, so that footer_pos - 4 is
\* not negative and the payload, CRC and trace slices lie in the line; a line
\* with the header and no footer gives a Protocol error.
C40_FooterAfterHeader ==
    f_pc = "received" =>
       /\ (line_has_header /\ line_has_footer) =>
             /\ f_out.hpos = Min(window_positions(f_out.buf, HEADER))
             /\ f_out.fpos = Max(window_positions(f_out.buf, FOOTER))
             /\ f_out.fpos >= f_out.hpos + Len(HEADER)
             /\ f_out.fpos + Len(FOOTER) = Len(f_out.buf)
             /\ f_out.fpos - CRC_SIZE >= 0
             /\ Len(line_crc) = CRC_SIZE
             /\ Len(line_payload) = Max({0, f_out.fpos - CRC_SIZE - (f_out.hpos + Len(HEADER))})
             /\ trace_split_in_bounds
       /\ (line_has_header /\ ~line_has_footer) => f_out.res = Err(ErrProtocol)

\* a payload with CR LF cut the frame right after the header: the footer
\* found is at header_pos + 4, and the CRC slice is the header
C40_Witness ==
    /\ f_pc = "received"
    /\ line_found
    /\ f_out.fpos = f_out.hpos + Len(HEADER)
    /\ line_crc = HEADER
    /\ line_payload = <<>>

\* a byte replaced by LF ended the line before the footer: Protocol error
C40_WitnessNoFooter ==
    /\ f_pc = "received"
    /\ line_has_header
    /\ ~line_has_footer
    /\ f_mod.byte = EOM
    /\ f_out.res = Err(ErrProtocol)

====
